---- MODULE Spec2Model ----
(***************************************************************************)
(* Data-refresh pipeline of the RISC-V specification dashboard             *)
(* (src/App.jsx with utils/format.js and config/constants.js).             *)
(*                                                                         *)
(* JavaScript values are records [type, val]; strings built by template    *)
(* literals are sequences of string tokens, so that "message A contains    *)
(* message B" is a statement about contiguous sub-sequences.               *)
(***************************************************************************)
EXTENDS Integers, Sequences, FiniteSets, TLC

VARIABLES
  env,              \* ENV_YAML_URL, fixed at build time ("" when not provided)
  mounted,          \* the refresh-interval effect has run
  data,             \* useState data: the displayed snapshot
  error,            \* useState error
  metaBase,         \* useState metaBase
  lastRefreshedAt,  \* useState lastRefreshedAt ("null" or "now")
  lastSuccessAt,    \* useState lastSuccessAt ("null" or "now")
  lastGeneratedAt,  \* useState lastGeneratedAt
  toastMsg,         \* useState toastMsg
  lastDataRef,      \* useRef lastDataRef.current
  lastGenRef,       \* useRef lastGenRef.current
  lastGeneratedRef, \* useRef lastGeneratedRef.current
  toastTimerRef,    \* useRef toastTimerRef.current: "null", "live" or "fired"
  toastTimers,      \* pending setTimeout callbacks (remaining time, creation order)
  inflight,         \* loadAndRender invocations suspended in fetchYaml, in start order
  ticks,            \* number of interval ticks so far (counted in LiveSpec only)
  hist,             \* history: document of the most recent successful refresh
  sinceEmit,        \* history: time elapsed since the most recent toast emission
  ev,               \* history: what the last step did
  vIn,              \* the document handed to the validator
  vOut,             \* what the validator made of vIn
  fStage,           \* filter: "idle", "ready", "filtered" or "refiltered"
  fData,            \* filter: the snapshot (data)
  fQuery,           \* filter: searchQuery
  fIsa,             \* filter: isaFilter
  fTrack,           \* filter: trackFilter
  fOut,             \* filter: filteredData of the snapshot
  fCount,           \* filter: matchCount of the snapshot
  fAgain,           \* filter: filteredData of fOut
  searchInput,      \* useState searchInput: the raw input
  searchQuery,      \* useState searchQuery: the committed query
  expandPhases,     \* useState expandPhases
  expandedPhase,    \* useState expandedPhase ("null" or a phase)
  isaFilter,        \* useState isaFilter
  trackFilter,      \* useState trackFilter
  debounceTimer,    \* the timer of the debounce effect: "unset", "armed", "fired"
  debounceLeft,     \* time left on the debounce timer
  sinceInput,       \* history: time elapsed since the raw input last changed
  filteredMemo,     \* useMemo filteredData, as of the last render
  matchMemo,        \* useMemo matchCount, as of the last render
  statusConfig,     \* useState statusConfig
  configFetched,    \* the fetch of status_config.json has settled
  cardIssue,        \* the issue prop of an IssueCard
  card,             \* what the IssueCard computed in its last render
  intervalLeft,     \* time left until the refresh interval fires
  sinceStart,       \* history: time elapsed since a refresh last started
  starts,           \* history: number of refreshes started
  startedAt,        \* history: for every refresh in flight, its start number
  failStreak,       \* history: failed refreshes since the last successful one
  recovered,        \* history: failStreak at the last successful refresh
  winSeq,           \* history: greatest start number of a successful refresh
  winDoc            \* history: the document of that refresh

appVars == <<env, mounted, data, error, metaBase, lastRefreshedAt,
             lastSuccessAt, lastGeneratedAt, toastMsg, lastDataRef, lastGenRef,
             lastGeneratedRef, toastTimerRef, toastTimers, inflight, ticks,
             hist, sinceEmit, ev>>

validateVars == <<vIn, vOut>>

filterVars == <<fStage, fData, fQuery, fIsa, fTrack, fOut, fCount, fAgain>>

uiVars == <<searchInput, searchQuery, expandPhases, expandedPhase, isaFilter,
           trackFilter, debounceTimer, debounceLeft, sinceInput, filteredMemo,
           matchMemo>>

statusVars == <<statusConfig, configFetched, cardIssue, card>>

scheduleVars == <<intervalLeft, sinceStart, starts, startedAt, failStreak,
                 recovered, winSeq, winDoc>>

pureVars == <<validateVars, filterVars, uiVars, statusVars, scheduleVars>>

vars == <<appVars, pureVars>>

----------------------------------------------------------------------------
\* Bounds of the model.

\* Refreshes that may be suspended in fetchYaml at the same time.
MaxInFlight == 2

\* Interval ticks in a behaviour of LiveSpec.
MaxTicks == 3

\* Milliseconds that pass in one Advance step.
Quantum == 1000

\* Milliseconds that pass in one DebounceAdvance step.
DebounceQuantum == 100

\* Milliseconds that pass in one IntervalAdvance step.
IntervalQuantum == 150000

\* Refreshes started in a behaviour of ScheduleSpec.
MaxStarts == 3

----------------------------------------------------------------------------
\* JavaScript values.

Undef == [type |-> "undefined", val |-> ""]
JSNull == [type |-> "null", val |-> ""]
Num(s) == [type |-> "number", val |-> s]
Str(s) == [type |-> "string", val |-> s]
Arr(s) == [type |-> "array", val |-> s]
Map(s) == [type |-> "map", val |-> s]
DateObj(s) == [type |-> "date", val |-> s]

\* ToBoolean: the falsy values are undefined, null, false, 0 and "".
Truthy(v) ==
  ~ \/ v.type \in {"undefined", "null"}
    \/ v.type = "boolean" /\ v.val = "false"
    \/ v.type = "number" /\ v.val = "0"
    \/ v.type = "string" /\ v.val = ""

\* typeof v === "object" (true of null, arrays, mappings and Date objects).
TypeofObject(v) == v.type \in {"null", "array", "map", "date"}

\* A value that lives on the heap and is compared by reference.
IsReference(v) == v.type \in {"array", "map", "date"}

\* a !== b where b was created by the parse that has just finished: a
\* reference value from an earlier parse is never the same reference.
StrictNotEqual(a, b) ==
  IF IsReference(a) \/ IsReference(b) THEN TRUE ELSE a # b

\* JSON.stringify of a counts value.
JSONstringify(v) ==
  CASE v.type = "map" -> Str("{" \o v.val \o "}")
    [] v.type = "array" -> Str("[" \o v.val \o "]")
    [] OTHER -> Str(v.val)

----------------------------------------------------------------------------
\* Text.  A string that the filters and classifiers work on is a sequence
\* of tokens: " " is white space, every other token is a run of characters
\* without white space at its ends, known in its lower-case, capitalised
\* and upper-case forms.

CaseTable ==
  { <<"a", "A", "A">>, <<"b", "B", "B">>,
    <<"isa", "Isa", "ISA">>, <<"non-isa", "Non-Isa", "NON-ISA">>,
    <<"yes", "Yes", "YES">>, <<"no", "No", "NO">>, <<"true", "True", "TRUE">>,
    <<"done", "Done", "DONE">>, <<"to do", "To Do", "TO DO">>,
    <<"blocked", "Blocked", "BLOCKED">>, <<"approved", "Approved", "APPROVED">>,
    <<"waived", "Waived", "WAIVED">>,
    <<"development", "Development", "DEVELOPMENT">>,
    <<"planning", "Planning", "PLANNING">>, <<"plan", "Plan", "PLAN">>,
    <<"ecosystem", "Ecosystem", "ECOSYSTEM">>,
    <<"inception", "Inception", "INCEPTION">>,
    <<"stabilization", "Stabilization", "STABILIZATION">>,
    <<"freeze", "Freeze", "FREEZE">>,
    <<"ratification-ready", "Ratification-Ready", "RATIFICATION-READY">>,
    <<"ratification ready", "Ratification Ready", "RATIFICATION READY">>,
    <<"publication", "Publication", "PUBLICATION">>,
    <<"ratified", "Ratified", "RATIFIED">>,
    <<"cancelled", "Cancelled", "CANCELLED">>,
    <<"fast-track", "Fast-Track", "FAST-TRACK">>,
    <<"approval", "Approval", "APPROVAL">> }

\* String.prototype.toLowerCase
toLowerCase(s) ==
  [k \in 1..Len(s) |->
     IF \E r \in CaseTable : s[k] \in {r[2], r[3]}
     THEN (CHOOSE r \in CaseTable : s[k] \in {r[2], r[3]})[1]
     ELSE s[k]]

\* String.prototype.toUpperCase
toUpperCase(s) ==
  [k \in 1..Len(s) |->
     IF \E r \in CaseTable : s[k] \in {r[1], r[2]}
     THEN (CHOOSE r \in CaseTable : s[k] \in {r[1], r[2]})[3]
     ELSE s[k]]

RECURSIVE trimStart(_)
\* String.prototype.trimStart
trimStart(s) ==
  IF s # <<>> /\ Head(s) = " " THEN trimStart(Tail(s)) ELSE s

RECURSIVE trimEnd(_)
\* String.prototype.trimEnd
trimEnd(s) ==
  IF s # <<>> /\ s[Len(s)] = " " THEN trimEnd(SubSeq(s, 1, Len(s) - 1)) ELSE s

\* String.prototype.trim
trim(s) == trimEnd(trimStart(s))

RECURSIVE JoinText(_, _)
\* Array.prototype.join on an array of strings.
JoinText(parts, sep) ==
  IF parts = <<>> THEN <<>>
  ELSE IF Len(parts) = 1 THEN parts[1]
  ELSE parts[1] \o sep \o JoinText(Tail(parts), sep)

\* String.prototype.includes
includes(hay, q) ==
  \E i \in 0..(Len(hay) - Len(q)) : \A j \in 1..Len(q) : hay[i + j] = q[j]

\* A filter that never keeps the first element.
filter_SkipFirst(s, keep) ==
  LET kept == {k \in 2..Len(s) : keep[k]}
  IN [j \in 1..Cardinality(kept) |->
        s[CHOOSE k \in kept : Cardinality({m \in kept : m < k}) = j - 1]]

RECURSIVE filter(_, _)
\* Array.prototype.filter; keep[k] is what the callback returns for s[k].
filter(s, keep) ==
  IF s = <<>> THEN <<>>
  ELSE (IF Head(keep) THEN <<Head(s)>> ELSE <<>>) \o filter(Tail(s), Tail(keep))

\* A value of a field of an issue: its type and String(value).
TUndef == [type |-> "undefined", text |-> <<>>]
TNull == [type |-> "null", text |-> <<>>]
TStr(t) == [type |-> "string", text |-> t]
TBool(t) == [type |-> "boolean", text |-> <<t>>]

\* ToBoolean of a field value.
ToBoolean(v) ==
  \/ v.type = "string" /\ v.text # <<>>
  \/ v.type = "boolean" /\ v.text = <<"true">>

\* issue.isa_or_non_isa and issue.is_fast_track: absent, or an object
\* with a value.
NoField == [present |-> FALSE, value |-> TUndef]
Field(v) == [present |-> TRUE, value |-> v]

\* An issue.  A text field that is absent is the empty string, which is what
\* every reader makes of it (issue.key || "").
Issue(key, summary, phase, isa, ft, subtasks, linked) ==
  [key |-> key, summary |-> summary, phase |-> phase, isa_or_non_isa |-> isa,
   is_fast_track |-> ft, subtasks |-> subtasks, linked_issues |-> linked]

Subtask(key, summary, status, type, approval) ==
  [key |-> key, summary |-> summary, status |-> status, type |-> type,
   is_approval |-> approval]

LinkedIssue(key, summary, relationship, direction) ==
  [key |-> key, summary |-> summary, relationship |-> relationship,
   direction |-> direction]

----------------------------------------------------------------------------
\* Parsed documents: the value yamlLoad returns.  root is the type of the
\* root value; the four fields are what property access on it yields.

MkDoc(root, rv, sv, c, p, g) ==
  [root |-> root, rval |-> rv, schema_version |-> sv, counts |-> c,
   phases |-> p, generated_at |-> g]

Scalar(root, rv) == MkDoc(root, rv, Undef, Undef, Undef, Undef)

\* null: the initial value of data and of the refs.
NoDoc == Scalar("null", "")

\* Two issues of a snapshot.
IssueA ==
  Issue(<<"a">>, <<"B">>, <<"Development">>, Field(TStr(<<"ISA">>)),
        Field(TStr(<<"yes">>)), <<>>, <<>>)
IssueB ==
  Issue(<<"b">>, <<>>, <<"Development">>, Field(TStr(<<"NON-ISA">>)),
        Field(TStr(<<"no">>)),
        <<Subtask(<<"a">>, <<"[", "Development", "]">>, <<"Done">>, <<>>, TUndef)>>,
        <<>>)

\* The phases mapping of the documents the sources serve: phase name to
\* list of issues.
SomePhases == [Development |-> <<IssueA, IssueB>>, Planning |-> <<>>]

\* yamlLoad("") returns undefined; a document may also be a bare scalar or
\* a sequence.
NonMapDocs ==
  { Scalar("undefined", ""), Scalar("null", ""), Scalar("boolean", "false"),
    Scalar("number", "0"), Scalar("number", "7"), Scalar("string", ""),
    Scalar("string", "hello"), Scalar("array", "") }

SchemaVersions == {Undef, JSNull, Num("0"), Num("1"), Str("")}
CountsValues == {Undef, JSNull, Num("0"), Str("many"), Arr(""), Map("a:1")}
PhasesValues == {Undef, JSNull, Str(""), Num("3"), Arr(""), Map(SomePhases)}

\* Every combination of the three required fields, generated_at fixed.
ShapeDocs ==
  { MkDoc("map", "", sv, c, p, Str("t1")) :
      sv \in SchemaVersions, c \in CountsValues, p \in PhasesValues }

\* The documents the validator is applied to.
Docs == NonMapDocs \cup ShapeDocs

\* The documents the sources serve to a refresh: well-formed ones that
\* differ in generated_at or in counts only (an unquoted YAML timestamp is
\* parsed to a Date object), an empty one and a malformed one.
RefreshDocs ==
  { MkDoc("map", "", Num("1"), Map("a:1"), Map(SomePhases), Str("t1")),
    MkDoc("map", "", Num("1"), Map("a:1"), Map(SomePhases), Str("t2")),
    MkDoc("map", "", Num("1"), Map("a:1"), Map(SomePhases),
          DateObj("t1")),
    MkDoc("map", "", Num("1"), Map("a:1"), Map(SomePhases), Undef),
    MkDoc("map", "", Num("1"), Map("a:2"), Map(SomePhases), Undef),
    Scalar("undefined", ""),
    MkDoc("map", "", Num("1"), Undef, Str(""), Str("t1")) }

\* The root value of a document as a JavaScript value.
RootValue(d) == [type |-> d.root, val |-> d.rval]

----------------------------------------------------------------------------
\* Messages.

EmptyMsg == <<>>

RECURSIVE Join(_, _)
\* Array.prototype.join
Join(parts, sep) ==
  IF parts = <<>> THEN <<>>
  ELSE IF Len(parts) = 1 THEN <<parts[1]>>
  ELSE <<parts[1], sep>> \o Join(Tail(parts), sep)

\* String.prototype.includes on token sequences.
Contains(msg, part) ==
  \E i \in 0..(Len(msg) - Len(part)) :
    \A j \in 1..Len(part) : msg[i + j] = part[j]

----------------------------------------------------------------------------
\* utils/format.js

\* !v in place of v == null.
IsNullish_Falsy(v) == ~Truthy(v)

\* v == null
IsNullish(v) == v \in {Undef, JSNull}

\* The validator returning at the first violated check.
validateYamlShape_FirstOnly(d) ==
  IF ~Truthy(RootValue(d)) \/ ~TypeofObject(RootValue(d))
  THEN [ok |-> FALSE, errors |-> <<"YAML root must be an object.">>]
  ELSE IF IsNullish(d.schema_version)
  THEN [ok |-> FALSE, errors |-> <<"Missing schema_version.">>]
  ELSE IF ~Truthy(d.counts) \/ ~TypeofObject(d.counts)
  THEN [ok |-> FALSE, errors |-> <<"Missing counts object.">>]
  ELSE IF ~Truthy(d.phases) \/ ~TypeofObject(d.phases)
  THEN [ok |-> FALSE, errors |-> <<"Missing phases object.">>]
  ELSE [ok |-> TRUE, errors |-> <<>>]

\* validateYamlShape(data): [ok, errors], errors in the order they are pushed.
validateYamlShape(d) ==
  IF ~Truthy(RootValue(d)) \/ ~TypeofObject(RootValue(d))
  THEN [ok |-> FALSE, errors |-> <<"YAML root must be an object.">>]
  ELSE
    LET e1 == IF IsNullish(d.schema_version)
              THEN <<"Missing schema_version.">> ELSE <<>>
        e2 == IF ~Truthy(d.counts) \/ ~TypeofObject(d.counts)
              THEN <<"Missing counts object.">> ELSE <<>>
        e3 == IF ~Truthy(d.phases) \/ ~TypeofObject(d.phases)
              THEN <<"Missing phases object.">> ELSE <<>>
        errors == e1 \o e2 \o e3
    IN [ok |-> Len(errors) = 0, errors |-> errors]

----------------------------------------------------------------------------
\* config/constants.js

DEFAULT_INTERVAL_MS == 5 * 60 * 1000
DEFAULT_SRC_LOCAL == "RVS_phase_rollup.yaml"
DEFAULT_SRC_REMOTE ==
  "https://github.com/riscv-admin/riscv-sde/releases/latest/download/RVS_phase_rollup.yaml"

\* The values import.meta.env.VITE_YAML_URL || "" can have.
EnvValues == {"", "https://example.org/override.yaml"}

PHASE_ORDER ==
  <<"Inception", "Planning", "Development", "Stabilization", "Freeze",
    "Ratification-Ready", "Publication", "Ratified", "Cancelled">>

\* PHASE_LOOKUP: lower-cased phase name to phase.
PHASE_LOOKUP ==
  [label \in {toLowerCase(<<PHASE_ORDER[k]>>)[1] : k \in 1..Len(PHASE_ORDER)} |->
     CHOOSE phase \in {PHASE_ORDER[k] : k \in 1..Len(PHASE_ORDER)} :
       toLowerCase(<<phase>>)[1] = label]

\* PHASE_ALIASES: label to phase, or to null.
PHASE_ALIASES ==
  [label \in {"plan", "ratification ready", "ratification-ready", "fast-track",
              "ecosystem"} |->
     CASE label = "plan" -> TStr(<<"Planning">>)
       [] label \in {"ratification ready", "ratification-ready"} ->
            TStr(<<"Ratification-Ready">>)
       [] OTHER -> TNull]

APPROVAL_TYPES == {<<"BoD Approval">>, <<"Approval">>, <<"ARC Review">>}

\* A field of a status configuration object: absent, an array of strings,
\* or some other value.
AbsentV == [kind |-> "absent", items |-> <<>>]
OtherV == [kind |-> "other", items |-> <<>>]
ArrayV(items) == [kind |-> "array", items |-> items]

DEFAULT_STATUS_CONFIG ==
  [doneStatuses |->
     ArrayV(<<<<"done">>, <<"approved">>, <<"not required to freeze">>,
              <<"ar review not require">>, <<"ar review not required">>,
              <<"approval not required">>, <<"arc review not required">>>>),
   notStartedStatuses |->
     ArrayV(<<<<"not started">>, <<"to do">>, <<"open">>, <<"backlog">>>>)]

\* Delay of the toast's clear timer.
TOAST_DELAY_MS == 3000

ToastUnits == TOAST_DELAY_MS \div Quantum

IntervalUnits == DEFAULT_INTERVAL_MS \div IntervalQuantum

\* Delay of the debounce timer (App line 106).
DEBOUNCE_MS == 200

DebounceUnits == DEBOUNCE_MS \div DebounceQuantum

----------------------------------------------------------------------------
\* App.fetchYaml

\* The remote release URL before the same-origin path.
Sources_RemoteFirst(e) ==
  SelectSeq(<<e, DEFAULT_SRC_REMOTE, DEFAULT_SRC_LOCAL>>, LAMBDA s : s # "")

\* [ENV_YAML_URL, DEFAULT_SRC_LOCAL, DEFAULT_SRC_REMOTE].filter(Boolean)
Sources(e) ==
  SelectSeq(<<e, DEFAULT_SRC_LOCAL, DEFAULT_SRC_REMOTE>>, LAMBDA s : s # "")

\* What one read of a source can come to: fetch rejects, the response has a
\* status, and a body that yamlLoad parses to a document or rejects.
Outcome(kind, status, doc) == [kind |-> kind, status |-> status, doc |-> doc]

Outcomes ==
  { Outcome("reject", "", NoDoc), Outcome("response", "404", NoDoc),
    Outcome("badyaml", "200", NoDoc) }
  \cup { Outcome("yaml", "200", d) : d \in RefreshDocs }

\* resp.ok
RespOk(status) == status = "200"

\* An Error object is its message; null is NoErr.
NoErr == [isErr |-> FALSE, message |-> EmptyMsg]
Err(m) == [isErr |-> TRUE, message |-> m]

\* The body of the try block for one source: what it returns or throws.
Attempt(o) ==
  IF o.kind = "reject"
  THEN [threw |-> TRUE, err |-> Err(<<"Failed to fetch">>), value |-> NoDoc]
  ELSE IF ~RespOk(o.status)
  THEN [threw |-> TRUE, err |-> Err(<<"HTTP ", o.status>>), value |-> NoDoc]
  ELSE IF o.kind = "badyaml"
  THEN [threw |-> TRUE, err |-> Err(<<"bad indentation of a mapping entry">>),
        value |-> NoDoc]
  ELSE [threw |-> FALSE, err |-> NoErr, value |-> o.doc]

\* A loadAndRender invocation suspended in fetchYaml: the index of the
\* source being read, lastErr, and the sources read so far.
NewRefresh == [idx |-> 1, lastErr |-> NoErr, tried |-> <<>>]

\* The first error is kept.
Catch_KeepFirst(lastErr, err) == IF lastErr.isErr THEN lastErr ELSE err

\* catch(err){ lastErr = err; }
Catch(lastErr, err) == err

\* A loop that goes on to the next source when the parsed document is
\* empty or has not the shape of a rollup.
fetchYaml_ValidateEach(r, o) ==
  LET a == Attempt(o)
      log == Append(r.tried, Sources(env)[r.idx])
      bad == a.threw \/ ~Truthy(RootValue(a.value))
             \/ ~validateYamlShape(a.value).ok
  IN IF ~bad \/ (~a.threw /\ r.idx >= Len(Sources(env)))
     THEN [step |-> "return", value |-> a.value, err |-> NoErr,
           r |-> [r EXCEPT !.tried = log]]
     ELSE
       LET lastErr == IF a.threw THEN Catch(r.lastErr, a.err) ELSE r.lastErr
       IN IF r.idx < Len(Sources(env))
          THEN [step |-> "next", value |-> NoDoc, err |-> NoErr,
                r |-> [idx |-> r.idx + 1, lastErr |-> lastErr, tried |-> log]]
          ELSE [step |-> "throw", value |-> NoDoc,
                err |-> IF lastErr.isErr THEN lastErr
                        ELSE Err(<<"Failed to load YAML">>),
                r |-> [r EXCEPT !.lastErr = lastErr, !.tried = log]]

\* One turn of the for loop of fetchYaml for refresh r, the read of source
\* r.idx having come to o: "next" (the loop goes on), "return" or "throw".
fetchYaml(r, o) ==
  LET a == Attempt(o)
      log == Append(r.tried, Sources(env)[r.idx])
  IN IF ~a.threw
     THEN [step |-> "return", value |-> a.value, err |-> NoErr,
           r |-> [r EXCEPT !.tried = log]]
     ELSE
       LET lastErr == Catch(r.lastErr, a.err)
       IN IF r.idx < Len(Sources(env))
          THEN [step |-> "next", value |-> NoDoc, err |-> NoErr,
                r |-> [idx |-> r.idx + 1, lastErr |-> lastErr, tried |-> log]]
          ELSE [step |-> "throw", value |-> NoDoc,
                err |-> IF lastErr.isErr THEN lastErr
                        ELSE Err(<<"Failed to load YAML">>),
                r |-> [r EXCEPT !.lastErr = lastErr, !.tried = log]]

----------------------------------------------------------------------------
\* App.loadAndRender

\* A history record of one step: the document fetchYaml returned, the
\* message of the error caught, the sources read, the outcome of the last
\* read, whether a toast was emitted, the last good document before the
\* step, and the time since the last emission before the step.
Event(type, doc, cause, tried, last, emitted, prev, elapsed) ==
  [type |-> type, doc |-> doc, cause |-> cause, tried |-> tried, last |-> last,
   emitted |-> emitted, prev |-> prev, elapsed |-> elapsed]

Quiet(type) == Event(type, NoDoc, EmptyMsg, <<>>, "", FALSE, NoDoc, -1)

\* nextData.generated_at || JSON.stringify(nextData.counts || {})
genKey(d) ==
  IF Truthy(d.generated_at) THEN d.generated_at
  ELSE IF Truthy(d.counts) THEN JSONstringify(d.counts)
  ELSE Str("{}")

\* nextData.generated_at ? new Date(nextData.generated_at) : null
generatedAt(d) ==
  IF Truthy(d.generated_at) THEN DateObj(d.generated_at.val) ELSE JSNull

\* lastGenRef.current && lastGenRef.current !== genKey
ShouldToast(last, key) == Truthy(last) /\ StrictNotEqual(last, key)

\* The pending timer is left to run.
ClearToastTimer_Never(timers, ref) == timers

\* if(toastTimerRef.current) clearTimeout(toastTimerRef.current)
ClearToastTimer(timers, ref) ==
  IF ref = "live" THEN SubSeq(timers, 1, Len(timers) - 1) ELSE timers

\* The synchronous start of loadAndRender, up to the first fetch.
StartRefresh ==
  /\ error' = EmptyMsg
  /\ inflight' = Append(inflight, NewRefresh)

\* Lines 71-86: the refresh r has fetched and validated nextData, read with
\* outcome o.
LoadSuccess(nextData, r, o) ==
  LET key == genKey(nextData)
      toast == ShouldToast(lastGenRef, key)
  IN /\ data' = nextData
     /\ lastRefreshedAt' = "now"
     /\ lastSuccessAt' = "now"
     /\ lastGeneratedAt' = generatedAt(nextData)
     /\ lastGeneratedRef' = generatedAt(nextData)
     /\ metaBase' = ""
     /\ lastDataRef' = nextData
     /\ IF toast
        THEN /\ toastMsg' = "YAML updated"
             /\ toastTimers' =
                  Append(ClearToastTimer(toastTimers, toastTimerRef), ToastUnits)
             /\ toastTimerRef' = "live"
             /\ sinceEmit' = 0
        ELSE UNCHANGED <<toastMsg, toastTimers, toastTimerRef, sinceEmit>>
     /\ lastGenRef' = key
     /\ hist' = nextData
     /\ ev' = Event("success", nextData, EmptyMsg, r.tried, o.kind, toast, hist,
                  sinceEmit)
     /\ UNCHANGED error

\* The soft message without the cause.
SoftError_NoCause(m) == <<"Error loading YAML. Using last successful data.">>

\* `Error loading YAML. Using last successful data. (${err.message})`
SoftError(m) ==
  <<"Error loading YAML. Using last successful data. (">> \o m \o <<")">>

\* `Error loading YAML: ${err.message}`
HardError(m) == <<"Error loading YAML: ">> \o m

\* The last good snapshot is not consulted.
HasLastGood_Never(ref) == FALSE

\* if(lastDataRef.current)
HasLastGood(ref) == Truthy(RootValue(ref))

\* Lines 87-98: the catch block, err.message being m.
LoadCatch(m, doc, r, o) ==
  /\ IF HasLastGood(lastDataRef)
     THEN /\ error' = SoftError(m)
          /\ data' = lastDataRef
          /\ lastGeneratedAt' = lastGeneratedRef
          /\ UNCHANGED metaBase
     ELSE /\ error' = HardError(m)
          /\ metaBase' = "Failed to load data."
          /\ UNCHANGED <<data, lastGeneratedAt>>
  /\ lastRefreshedAt' = "null"
  /\ ev' = Event("fail", doc, m, r.tried, o.kind, FALSE, hist, -1)
  /\ UNCHANGED <<lastSuccessAt, toastMsg, lastDataRef, lastGenRef,
                 lastGeneratedRef, toastTimerRef, toastTimers, hist, sinceEmit>>

\* Lines 63-70 after fetchYaml has returned nextData: the message thrown,
\* or EmptyMsg when nothing is thrown.
Thrown(nextData) ==
  IF ~Truthy(RootValue(nextData)) THEN <<"No data found.">>
  ELSE LET validation == validateYamlShape(nextData)
       IN IF ~validation.ok
          THEN <<"Invalid YAML: ">> \o Join(validation.errors, " ")
          ELSE EmptyMsg

\* The sequence s without its i-th element.
Remove(s, i) == SubSeq(s, 1, i - 1) \o SubSeq(s, i + 1, Len(s))

----------------------------------------------------------------------------
\* utils/format.js and utils/search.js: classification and matching.

\* issue?.f && (issue.f.value ?? null), f being isa_or_non_isa or
\* is_fast_track.
RawValue(f) ==
  IF ~f.present THEN TUndef
  ELSE IF f.value.type \in {"undefined", "null"} THEN TNull
  ELSE f.value

\* issueIsaValue with "ISA" for an issue that has no value.
issueIsaValue_Default(issue) ==
  LET isaRaw == RawValue(issue.isa_or_non_isa)
  IN IF ToBoolean(isaRaw) THEN toUpperCase(trim(isaRaw.text)) ELSE <<"ISA">>

\* issueIsaValue(issue)
issueIsaValue(issue) ==
  LET isaRaw == RawValue(issue.isa_or_non_isa)
  IN IF ToBoolean(isaRaw) THEN toUpperCase(trim(isaRaw.text)) ELSE <<>>

\* issueTrackValue without the trim.
issueTrackValue_NoTrim(issue) ==
  LET ftRaw == RawValue(issue.is_fast_track)
      v == IF ftRaw.type = "string" THEN toLowerCase(ftRaw.text) ELSE <<>>
  IN IF v = <<"yes">> THEN <<"Fast-Track">>
     ELSE IF v = <<"no">> THEN <<"Regular">>
     ELSE <<>>

\* issueTrackValue(issue)
issueTrackValue(issue) ==
  LET ftRaw == RawValue(issue.is_fast_track)
      v == IF ftRaw.type = "string" THEN toLowerCase(trim(ftRaw.text)) ELSE <<>>
  IN IF v = <<"yes">> THEN <<"Fast-Track">>
     ELSE IF v = <<"no">> THEN <<"Regular">>
     ELSE <<>>

\* No subtask given to matchesQuery.
NoSub == <<>>

\* The strings matchesQuery pushes for the linked issues.
LinkedHay(linked) ==
  [k \in 1..(4 * Len(linked)) |->
     LET li == linked[((k - 1) \div 4) + 1]
     IN CASE (k - 1) % 4 = 0 -> li.key
          [] (k - 1) % 4 = 1 -> li.summary
          [] (k - 1) % 4 = 2 -> li.relationship
          [] OTHER -> li.direction]

\* matchesQuery(q, issue, sub); sub is <<st>> or NoSub.
matchesQuery(q, issue, sub) ==
  IF q = <<>> THEN TRUE
  ELSE
    LET hay == <<issue.key, issue.summary, issue.phase>>
               \o LinkedHay(issue.linked_issues)
               \o (IF sub # NoSub
                   THEN <<sub[1].key, sub[1].summary, sub[1].status, sub[1].type>>
                   ELSE <<>>)
    IN includes(toLowerCase(JoinText(hay, <<" ">>)), q)

\* No filter selected (null).
NoFilter == <<>>

\* issueMatchesFilters passing an issue that matches either filter.
issueMatchesFilters_Either(issue, isaF, trackF) ==
  \/ isaF = NoFilter /\ trackF = NoFilter
  \/ isaF # NoFilter /\ issueIsaValue(issue) = isaF
  \/ trackF # NoFilter /\ issueTrackValue(issue) = trackF

\* issueMatchesFilters(issue, isaFilter, trackFilter)
issueMatchesFilters(issue, isaF, trackF) ==
  /\ isaF # NoFilter => issueIsaValue(issue) = isaF
  /\ trackF # NoFilter => issueTrackValue(issue) = trackF

----------------------------------------------------------------------------
\* App: the filtered view.

\* data.phases || {}
PhasesOf(d) == IF d.phases.type = "map" THEN d.phases.val ELSE <<>>

\* phases[phase] || []
PhaseList(phases, phase) ==
  IF phase \in DOMAIN phases THEN phases[phase] ELSE <<>>

\* The callback without the test for an empty query.
KeepIssue_TextRequired(issue, q, isaF, trackF) ==
  LET matchesText ==
        /\ q # <<>>
        /\ \/ matchesQuery(q, issue, NoSub)
           \/ \E k \in 1..Len(issue.subtasks) :
                matchesQuery(q, issue, <<issue.subtasks[k]>>)
  IN IF ~matchesText THEN FALSE
     ELSE issueMatchesFilters(issue, isaF, trackF)

\* The callback of allIssues.filter in filteredData.
KeepIssue(issue, q, isaF, trackF) ==
  LET matchesText ==
        \/ q = <<>>
        \/ matchesQuery(q, issue, NoSub)
        \/ \E k \in 1..Len(issue.subtasks) :
             matchesQuery(q, issue, <<issue.subtasks[k]>>)
  IN IF ~matchesText THEN FALSE
     ELSE issueMatchesFilters(issue, isaF, trackF)

\* The useMemo of filteredData: null without data, else a copy of data
\* with the filtered list of every phase of PHASE_ORDER.
filteredData(d, query, isaF, trackF) ==
  IF ~Truthy(RootValue(d)) THEN NoDoc
  ELSE
    LET q == toLowerCase(trim(query))
        phases == PhasesOf(d)
        nextPhases ==
          [phase \in {PHASE_ORDER[k] : k \in 1..Len(PHASE_ORDER)} |->
             LET allIssues == PhaseList(phases, phase)
             IN filter(allIssues,
                       [k \in 1..Len(allIssues) |->
                          KeepIssue(allIssues[k], q, isaF, trackF)])]
    IN [d EXCEPT !.phases = Map(nextPhases)]

RECURSIVE SumSeq(_)
\* The sum of a sequence of numbers.
SumSeq(s) == IF s = <<>> THEN 0 ELSE Head(s) + SumSeq(Tail(s))

\* The matches matchCount counts for one issue.
IssueMatches(q, issue) ==
  (IF matchesQuery(q, issue, NoSub) THEN 1 ELSE 0)
  + Cardinality({k \in 1..Len(issue.subtasks) :
                   matchesQuery(q, issue, <<issue.subtasks[k]>>)})

\* The useMemo of matchCount.
matchCount(d, query) ==
  IF ~Truthy(RootValue(d)) \/ trim(query) = <<>> THEN 0
  ELSE
    LET q == toLowerCase(trim(query))
    IN SumSeq([k \in 1..Len(PHASE_ORDER) |->
                 LET issues == PhaseList(PhasesOf(d), PHASE_ORDER[k])
                 IN SumSeq([n \in 1..Len(issues) |-> IssueMatches(q, issues[n])])])

----------------------------------------------------------------------------
\* utils/status.js, utils/phase.js and components/IssueCard.jsx.

\* items.map((s) => String(s).toLowerCase())
LowerAll(items) == [k \in 1..Len(items) |-> toLowerCase(items[k])]

\* new Set(items).has(s)
Has(items, s) == \E k \in 1..Len(items) : items[k] = s

\* normalizeStatusConfig(cfg)
normalizeStatusConfig(cfg) ==
  LET doneStatuses == IF cfg.doneStatuses.kind = "array"
                      THEN cfg.doneStatuses.items
                      ELSE DEFAULT_STATUS_CONFIG.doneStatuses.items
      notStartedStatuses == IF cfg.notStartedStatuses.kind = "array"
                            THEN cfg.notStartedStatuses.items
                            ELSE DEFAULT_STATUS_CONFIG.notStartedStatuses.items
  IN [doneStatuses |-> LowerAll(doneStatuses),
      notStartedStatuses |-> LowerAll(notStartedStatuses)]

\* statusClass comparing the status as it is written.
statusClass_NoLower(status, cfg0) ==
  IF status = <<>> THEN "status-neutral"
  ELSE
    LET cfg == normalizeStatusConfig(cfg0)
    IN IF Has(cfg.doneStatuses, status) THEN "status-done"
       ELSE IF Has(cfg.notStartedStatuses, status) THEN "status-not-started"
       ELSE "status-in-progress"

\* statusClass(status, statusConfig)
statusClass(status, cfg0) ==
  IF status = <<>> THEN "status-neutral"
  ELSE
    LET s == toLowerCase(status)
        cfg == normalizeStatusConfig(cfg0)
    IN IF Has(cfg.doneStatuses, s) THEN "status-done"
       ELSE IF Has(cfg.notStartedStatuses, s) THEN "status-not-started"
       ELSE "status-in-progress"

\* countByStatus called without opts, and with doneStatuses only.
NoOpts == [doneStatuses |-> <<>>, notStartedStatuses |-> <<>>]
DoneOpts(items) == [doneStatuses |-> items, notStartedStatuses |-> <<>>]

\* Math.max(0, n)
Max0(n) == IF n < 0 THEN 0 ELSE n

\* Math.round((done / total) * 100)
Percent(done, total) == IF total = 0 THEN 0 ELSE (200 * done + total) \div (2 * total)

\* countByStatus(items, opts)
countByStatus(items, opts) ==
  LET doneStatuses == LowerAll(opts.doneStatuses)
      notStartedStatuses == LowerAll(opts.notStartedStatuses)
      status(k) == toLowerCase(items[k].status)
      isDone(k) == status(k) = <<"done">> \/ Has(doneStatuses, status(k))
      isNotStarted(k) ==
        /\ ~isDone(k)
        /\ \/ Has(notStartedStatuses, status(k))
           \/ status(k) \in {<<"not started">>, <<"to do">>, <<"open">>, <<"backlog">>}
      done == Cardinality({k \in 1..Len(items) : isDone(k)})
      notStarted == Cardinality({k \in 1..Len(items) : isNotStarted(k)})
      total == Len(items)
  IN [done |-> done, total |-> total, notStarted |-> notStarted,
      inProgress |-> Max0(total - done - notStarted),
      pct |-> Percent(done, total)]

\* No approval is pending (null).
NoItem == <<>>

\* firstPendingApproval that looks at the given statuses only.
firstPendingApproval_GivenOnly(approvals, doneStatuses) ==
  LET doneSet == LowerAll(doneStatuses)
      pending == {k \in 1..Len(approvals) :
                    ~Has(doneSet, toLowerCase(approvals[k].status))}
  IN IF pending = {} THEN NoItem
     ELSE <<approvals[CHOOSE k \in pending : \A m \in pending : k <= m]>>

\* firstPendingApproval(approvals, doneStatuses): <<item>> or NoItem.
firstPendingApproval(approvals, doneStatuses) ==
  LET doneSet == LowerAll(doneStatuses)
      pending == {k \in 1..Len(approvals) :
                    /\ toLowerCase(approvals[k].status) # <<"done">>
                    /\ ~Has(doneSet, toLowerCase(approvals[k].status))}
  IN IF pending = {} THEN NoItem
     ELSE <<approvals[CHOOSE k \in pending : \A m \in pending : k <= m]>>

\* The regular expression of phaseFromSummary: white space, "[", one or
\* more characters other than "]", "]". The label, or <<>> without a match.
BracketLabel(summary) ==
  LET t == trimStart(summary)
      closing == {k \in 1..Len(t) : t[k] = "]"}
  IN IF t = <<>> \/ Head(t) # "[" \/ closing = {} THEN <<>>
     ELSE SubSeq(t, 2, (CHOOSE k \in closing : \A m \in closing : k <= m) - 1)

\* phaseFromSummary(summary): a phase or null.
phaseFromSummary(summary) ==
  LET match == BracketLabel(summary)
      label == toLowerCase(trim(match))
  IN IF match = <<>> THEN TNull
     ELSE IF Len(label) = 1 /\ label[1] \in DOMAIN PHASE_ALIASES
          THEN PHASE_ALIASES[label[1]]
     ELSE IF Len(label) = 1 /\ label[1] \in DOMAIN PHASE_LOOKUP
          THEN TStr(<<PHASE_LOOKUP[label[1]]>>)
     ELSE TNull

\* isApproval(sub)
isApproval(sub) == sub.is_approval = TBool("true") \/ sub.type \in APPROVAL_TYPES

approvalDoneStatuses ==
  <<<<"approved">>, <<"approval not required">>, <<"ar review not required">>,
    <<"arc review not required">>>>

\* Lines 15-24 of IssueCard, and the status chip of every subtask row
\* (line 222).
IssueCard(issue, statusConfig0) ==
  LET issuePhase == issue.phase
      subtasks == issue.subtasks
      phaseTasks ==
        filter(subtasks,
               [k \in 1..Len(subtasks) |->
                  phaseFromSummary(subtasks[k].summary) = TStr(issuePhase)])
      taskOnly ==
        filter(phaseTasks, [k \in 1..Len(phaseTasks) |-> ~isApproval(phaseTasks[k])])
      approvalTasks ==
        filter(phaseTasks, [k \in 1..Len(phaseTasks) |-> isApproval(phaseTasks[k])])
  IN [rendered |-> TRUE,
      taskCounts |-> countByStatus(taskOnly, NoOpts),
      approvalCounts |-> countByStatus(approvalTasks, DoneOpts(approvalDoneStatuses)),
      nextApproval |-> firstPendingApproval(approvalTasks, approvalDoneStatuses),
      chips |-> [k \in 1..Len(issue.subtasks) |->
                   statusClass(issue.subtasks[k].status, statusConfig0)]]

\* The card before its first render.
NoCard ==
  [rendered |-> FALSE, taskCounts |-> countByStatus(<<>>, NoOpts),
   approvalCounts |-> countByStatus(<<>>, NoOpts), nextApproval |-> NoItem,
   chips |-> <<>>]

\* {...DEFAULT_STATUS_CONFIG, ...cfg}
MergeConfig(cfg) ==
  [f \in {"doneStatuses", "notStartedStatuses"} |->
     IF cfg[f].kind = "absent" THEN DEFAULT_STATUS_CONFIG[f] ELSE cfg[f]]

----------------------------------------------------------------------------
\* Steps.

InitApp ==
  /\ env \in EnvValues
  /\ mounted = FALSE
  /\ data = NoDoc
  /\ error = EmptyMsg
  /\ metaBase = "Loading..."
  /\ lastRefreshedAt = "null"
  /\ lastSuccessAt = "null"
  /\ lastGeneratedAt = JSNull
  /\ toastMsg = ""
  /\ lastDataRef = NoDoc
  /\ lastGenRef = JSNull
  /\ lastGeneratedRef = JSNull
  /\ toastTimerRef = "null"
  /\ toastTimers = <<>>
  /\ inflight = <<>>
  /\ ticks = 0
  /\ hist = NoDoc
  /\ sinceEmit = -1
  /\ ev = Quiet("init")

\* The validator has not been applied.
NoResult == [done |-> FALSE, ok |-> FALSE, errors |-> <<>>, thrown |-> EmptyMsg]

\* No document is under validation.
ValidateIdle ==
  /\ vIn = NoDoc
  /\ vOut = NoResult

\* No filter is under study.
FilterIdle ==
  /\ fStage = "idle"
  /\ fData = NoDoc
  /\ fQuery = <<>>
  /\ fIsa = NoFilter
  /\ fTrack = NoFilter
  /\ fOut = NoDoc
  /\ fCount = 0
  /\ fAgain = NoDoc

\* The search, filter and expansion state after construction (lines 22-27),
\* and the memos of the first render.
UiInit ==
  /\ searchInput = <<>>
  /\ searchQuery = <<>>
  /\ expandPhases = FALSE
  /\ expandedPhase = "null"
  /\ isaFilter = NoFilter
  /\ trackFilter = NoFilter
  /\ debounceTimer = "unset"
  /\ debounceLeft = 0
  /\ sinceInput = 0
  /\ filteredMemo = NoDoc
  /\ matchMemo = 0

\* No issue whose card is under study.
NoIssue == Issue(<<>>, <<>>, <<>>, NoField, NoField, <<>>, <<>>)

\* The status configuration after construction (line 30); no card.
StatusInit ==
  /\ statusConfig = DEFAULT_STATUS_CONFIG
  /\ configFetched = FALSE
  /\ cardIssue = NoIssue
  /\ card = NoCard

\* No interval is armed and no refresh has started.
ScheduleInit ==
  /\ intervalLeft = 0
  /\ sinceStart = 0
  /\ starts = 0
  /\ startedAt = <<>>
  /\ failStreak = 0
  /\ recovered = 0
  /\ winSeq = 0
  /\ winDoc = NoDoc

Init ==
  /\ InitApp
  /\ ValidateIdle
  /\ FilterIdle
  /\ UiInit
  /\ StatusInit
  /\ ScheduleInit

\* The refresh-interval effect (lines 111-118) runs once after the first
\* render: it arms the interval and calls loadAndRender.
MountApp ==
  /\ ~mounted
  /\ mounted' = TRUE
  /\ StartRefresh
  /\ ev' = Quiet("mount")
  /\ UNCHANGED <<env, data, metaBase, lastRefreshedAt, lastSuccessAt,
                 lastGeneratedAt, toastMsg, lastDataRef, lastGenRef,
                 lastGeneratedRef, toastTimerRef, toastTimers, ticks, hist,
                 sinceEmit>>

\* Mount, the state outside the refresh cycle left alone.
Mount == MountApp /\ UNCHANGED pureVars

\* The interval fires: setInterval calls loadAndRender, whatever is in flight.
TickApp ==
  /\ mounted
  /\ Len(inflight) < MaxInFlight
  /\ StartRefresh
  /\ ev' = Quiet("tick")
  /\ UNCHANGED <<env, mounted, data, metaBase, lastRefreshedAt, lastSuccessAt,
                 lastGeneratedAt, toastMsg, lastDataRef, lastGenRef,
                 lastGeneratedRef, toastTimerRef, toastTimers, ticks, hist,
                 sinceEmit>>

\* Tick, the state outside the refresh cycle left alone.
Tick == TickApp /\ UNCHANGED pureVars

\* Tick, with the ticks of the behaviour counted and bounded.
TickCounted ==
  /\ mounted
  /\ Len(inflight) < MaxInFlight
  /\ ticks < MaxTicks
  /\ ticks' = ticks + 1
  /\ StartRefresh
  /\ ev' = Quiet("tick")
  /\ UNCHANGED pureVars
  /\ UNCHANGED <<env, mounted, data, metaBase, lastRefreshedAt, lastSuccessAt,
                 lastGeneratedAt, toastMsg, lastDataRef, lastGenRef,
                 lastGeneratedRef, toastTimerRef, toastTimers, hist, sinceEmit>>

\* The read of a source fails and fetchYaml goes on to the next source.
FetchNextApp(i, o) ==
  LET f == fetchYaml(inflight[i], o)
  IN /\ f.step = "next"
     /\ inflight' = [inflight EXCEPT ![i] = f.r]
     /\ ev' = Event("next", NoDoc, EmptyMsg, f.r.tried, o.kind, FALSE, hist, -1)
     /\ UNCHANGED <<env, mounted, data, error, metaBase, lastRefreshedAt,
                    lastSuccessAt, lastGeneratedAt, toastMsg, lastDataRef,
                    lastGenRef, lastGeneratedRef, toastTimerRef, toastTimers,
                    ticks, hist, sinceEmit>>

FetchNext(i, o) == FetchNextApp(i, o) /\ UNCHANGED pureVars

\* fetchYaml returns a document that passes the checks of loadAndRender.
RefreshSucceedApp(i, o) ==
  LET f == fetchYaml(inflight[i], o)
  IN /\ f.step = "return"
     /\ Thrown(f.value) = EmptyMsg
     /\ inflight' = Remove(inflight, i)
     /\ LoadSuccess(f.value, f.r, o)
     /\ UNCHANGED <<env, mounted, ticks>>

RefreshSucceed(i, o) == RefreshSucceedApp(i, o) /\ UNCHANGED pureVars

\* fetchYaml throws, or loadAndRender throws on what it returned.
RefreshFailApp(i, o) ==
  LET f == fetchYaml(inflight[i], o)
  IN /\ \/ f.step = "throw"
        \/ f.step = "return" /\ Thrown(f.value) # EmptyMsg
     /\ inflight' = Remove(inflight, i)
     /\ LoadCatch(IF f.step = "throw" THEN f.err.message ELSE Thrown(f.value),
                  f.value, f.r, o)
     /\ UNCHANGED <<env, mounted, ticks>>

RefreshFail(i, o) == RefreshFailApp(i, o) /\ UNCHANGED pureVars

\* Quantum milliseconds pass while a toast timer is pending and none is due.
Advance ==
  /\ toastTimers # <<>>
  /\ \A k \in 1..Len(toastTimers) : toastTimers[k] > 0
  /\ toastTimers' = [k \in 1..Len(toastTimers) |-> toastTimers[k] - 1]
  /\ sinceEmit' = IF sinceEmit >= 0 THEN sinceEmit + 1 ELSE sinceEmit
  /\ ev' = Quiet("advance")
  /\ UNCHANGED pureVars
  /\ UNCHANGED <<env, mounted, data, error, metaBase, lastRefreshedAt,
                 lastSuccessAt, lastGeneratedAt, toastMsg, lastDataRef,
                 lastGenRef, lastGeneratedRef, toastTimerRef, inflight, ticks,
                 hist>>

\* The callback of line 84: a due toast timer fires.
ToastTimeout ==
  /\ toastTimers # <<>>
  /\ Head(toastTimers) = 0
  /\ toastMsg' = ""
  /\ toastTimers' = Tail(toastTimers)
  /\ toastTimerRef' = IF Len(toastTimers) = 1 /\ toastTimerRef = "live"
                      THEN "fired" ELSE toastTimerRef
  /\ sinceEmit' = -1
  /\ ev' = Event("toastTimeout", NoDoc, EmptyMsg, <<>>, "", FALSE, NoDoc, sinceEmit)
  /\ UNCHANGED pureVars
  /\ UNCHANGED <<env, mounted, data, error, metaBase, lastRefreshedAt,
                 lastSuccessAt, lastGeneratedAt, lastDataRef, lastGenRef,
                 lastGeneratedRef, inflight, ticks, hist>>

Next ==
  \/ Mount
  \/ Tick
  \/ \E i \in 1..Len(inflight) : \E o \in Outcomes : FetchNext(i, o)
  \/ \E i \in 1..Len(inflight) : \E o \in Outcomes : RefreshSucceed(i, o)
  \/ \E i \in 1..Len(inflight) : \E o \in Outcomes : RefreshFail(i, o)
  \/ Advance
  \/ ToastTimeout

Spec == Init /\ [][Next]_vars

LiveNext ==
  \/ Mount
  \/ TickCounted
  \/ \E i \in 1..Len(inflight) : \E o \in Outcomes : FetchNext(i, o)
  \/ \E i \in 1..Len(inflight) : \E o \in Outcomes : RefreshSucceed(i, o)
  \/ \E i \in 1..Len(inflight) : \E o \in Outcomes : RefreshFail(i, o)
  \/ Advance
  \/ ToastTimeout

\* The event loop runs a due timer callback and time does not stop.
LiveSpec == Init /\ [][LiveNext]_vars /\ WF_vars(Advance) /\ WF_vars(ToastTimeout)

----------------------------------------------------------------------------
\* The validator applied to every document of Docs.

ValidateInit ==
  /\ InitApp
  /\ vIn \in Docs
  /\ vOut = NoResult
  /\ FilterIdle
  /\ UiInit
  /\ StatusInit
  /\ ScheduleInit

\* validateYamlShape(vIn), and what lines 64-70 of loadAndRender throw on vIn.
Validate ==
  /\ ~vOut.done
  /\ vOut' = [done |-> TRUE, ok |-> validateYamlShape(vIn).ok,
              errors |-> validateYamlShape(vIn).errors, thrown |-> Thrown(vIn)]
  /\ UNCHANGED <<appVars, vIn, filterVars, uiVars, statusVars, scheduleVars>>

ValidateSpec == ValidateInit /\ [][Validate]_vars

----------------------------------------------------------------------------
\* The filtered view as a function of its inputs: every snapshot, query and
\* filter of a bounded domain, filtered once and then filtered again.

\* Longest phase list of the snapshots.
MaxIssues == 2

\* Issues that differ in what the query and the filters look at.
IssuePadded ==
  Issue(<<"b">>, <<>>, <<"Development">>, Field(TStr(<<" ", "Isa", " ">>)),
        Field(TStr(<<" ", "Yes">>)),
        <<Subtask(<<"b">>, <<"A">>, <<"To Do">>, <<>>, TUndef)>>, <<>>)
IssueLinked ==
  Issue(<<"b">>, <<"b">>, <<"Planning">>, Field(TStr(<<"Non-Isa">>)),
        Field(TStr(<<"NO">>)), <<>>,
        <<LinkedIssue(<<"A">>, <<>>, <<"blocked">>, <<>>)>>)
IssueBare ==
  Issue(<<"a", "b">>, <<>>, <<"Development">>, NoField, NoField, <<>>, <<>>)
IssueOdd ==
  Issue(<<"B">>, <<"a">>, <<"Development">>, Field(TStr(<<>>)),
        Field(TBool("true")), <<>>, <<>>)
IssueNull ==
  Issue(<<"B">>, <<>>, <<"Development">>, Field(TNull),
        Field(TStr(<<"yes", " ", "no">>)), <<>>, <<>>)

FilterIssues ==
  {IssueA, IssueB, IssuePadded, IssueLinked, IssueBare, IssueOdd, IssueNull}

\* The lists of at most n issues.
RECURSIVE IssueLists(_)
IssueLists(n) ==
  IF n = 0 THEN {<<>>}
  ELSE IssueLists(n - 1)
       \cup {<<i>> \o l : i \in FilterIssues,
                          l \in {m \in IssueLists(n - 1) : Len(m) = n - 1}}

\* Snapshots' phases: every phase of PHASE_ORDER present, only some of them
\* present, and one phase that PHASE_ORDER does not know.
PhaseMaps ==
  UNION {{[phase \in {PHASE_ORDER[k] : k \in 1..Len(PHASE_ORDER)} |->
             IF phase = "Development" THEN dev ELSE <<>>],
          [Development |-> dev, Planning |-> <<IssueLinked>>],
          [Development |-> dev, Ecosystem |-> <<IssueA>>]}
         : dev \in IssueLists(MaxIssues)}

FilterDocs ==
  {MkDoc("map", "", Num("1"), Map("a:1"), Map(ph), Str("g1")) : ph \in PhaseMaps}
  \cup {NoDoc}

Queries == {<<>>, <<"a">>, <<" ", "A">>, <<"a", " ", "b">>, <<" ">>, <<"blocked">>}
IsaFilters == {NoFilter, <<"ISA">>, <<"NON-ISA">>}
TrackFilters == {NoFilter, <<"Regular">>, <<"Fast-Track">>}

FilterInit ==
  /\ InitApp
  /\ ValidateIdle
  /\ fStage = "ready"
  /\ fData \in FilterDocs
  /\ fQuery \in Queries
  /\ fIsa \in IsaFilters
  /\ fTrack \in TrackFilters
  /\ fOut = NoDoc
  /\ fCount = 0
  /\ fAgain = NoDoc
  /\ UiInit
  /\ StatusInit
  /\ ScheduleInit

\* A render computes filteredData and matchCount of the snapshot.
ApplyFilter ==
  /\ fStage = "ready"
  /\ fStage' = "filtered"
  /\ fOut' = filteredData(fData, fQuery, fIsa, fTrack)
  /\ fCount' = matchCount(fData, fQuery)
  /\ UNCHANGED <<appVars, validateVars, uiVars, statusVars, scheduleVars,
                 fData, fQuery, fIsa, fTrack, fAgain>>

\* filteredData applied to its own result, with the same query and filters.
ReapplyFilter ==
  /\ fStage = "filtered"
  /\ fStage' = "refiltered"
  /\ fAgain' = filteredData(fOut, fQuery, fIsa, fTrack)
  /\ UNCHANGED <<appVars, validateVars, uiVars, statusVars, scheduleVars,
                 fData, fQuery, fIsa, fTrack, fOut, fCount>>

FilterNext == ApplyFilter \/ ReapplyFilter

FilterSpec == FilterInit /\ [][FilterNext]_vars

----------------------------------------------------------------------------
\* Properties of the refresh cycle.

\* The outcome of a failed read, from its kind.
FailedRead(kind) == CHOOSE o \in Outcomes : o.kind = kind /\ o.kind # "yaml"

\* The cause of the failure recorded by event e: the error of the last read,
\* or what loadAndRender throws on the document that was read.
UnderlyingCause(e) ==
  IF e.last = "yaml" THEN Thrown(e.doc) ELSE Attempt(FailedRead(e.last)).err.message

\* C1: once a refresh has succeeded, the displayed snapshot is the snapshot
\* of the most recent successful refresh in every later state, and a failed
\* refresh leaves it so and sets a non-fatal error message that contains the
\* underlying cause.
C1_LastGoodKept ==
  /\ hist # NoDoc => data = hist
  /\ ev.type = "fail" /\ ev.prev # NoDoc =>
       /\ hist = ev.prev
       /\ data = ev.prev
       /\ UnderlyingCause(ev) # EmptyMsg
       /\ Contains(error, UnderlyingCause(ev))
       /\ error[1] = "Error loading YAML. Using last successful data. ("
       /\ metaBase # "Failed to load data."

\* A refresh fails on a non-success status after an earlier one succeeded.
C1_Witness ==
  /\ ev.type = "fail"
  /\ ev.last = "response"
  /\ ev.prev # NoDoc
  /\ data = ev.prev

\* C2: right after a refresh completes successfully the displayed snapshot
\* and the last-good snapshot are the fetched document and the error
\* message is empty.
C2_SuccessClearsError ==
  ev.type = "success" =>
    /\ data = ev.doc
    /\ lastDataRef = ev.doc
    /\ error = EmptyMsg

\* C3: at most one refresh is in flight at any time.
C3_AtMostOneInFlight == Len(inflight) <= 1

\* The change fingerprint of a document: its generated_at value, or its
\* serialized counts when generated_at is absent.
Fingerprint(d) ==
  IF d.generated_at # Undef THEN d.generated_at ELSE JSONstringify(d.counts)

\* C4: a successful refresh emits the notification if and only if there was
\* a previous successful refresh and its fingerprint differs.
C4_ToastIffFingerprintDiffers ==
  ev.type = "success" =>
    (ev.emitted <=> (ev.prev # NoDoc /\ Fingerprint(ev.prev) # Fingerprint(ev.doc)))

\* C5: the notification is never set without a pending clear timer; an
\* emission leaves exactly one pending timer, with the full delay; the
\* timer clears the notification TOAST_DELAY_MS after the most recent
\* emission; every notification is eventually cleared.
C5_ToastCleared ==
  /\ [](toastMsg # "" => toastTimers # <<>>)
  /\ [](ev.emitted => toastMsg = "YAML updated" /\ toastTimers = <<ToastUnits>>)
  /\ [](ev.type = "toastTimeout" => toastMsg = "" /\ ev.elapsed = ToastUnits)
  /\ (toastMsg # "") ~> (toastMsg = "")

\* A notification is emitted while the previous one is still displayed, and
\* the delay starts again.
C5_Witness ==
  /\ ev.emitted
  /\ ev.elapsed \in 1..(ToastUnits - 1)
  /\ toastTimers = <<ToastUnits>>

\* The candidate sources in the order of the claim.
Candidates ==
  IF env = "" THEN <<DEFAULT_SRC_LOCAL, DEFAULT_SRC_REMOTE>>
  ELSE <<env, DEFAULT_SRC_LOCAL, DEFAULT_SRC_REMOTE>>

C7_LastErrorSurfaces ==
  ev.type = "fail" /\ ev.last # "yaml" =>
    /\ ev.tried = Candidates
    /\ ev.cause = Attempt(FailedRead(ev.last)).err.message
    /\ Contains(error, Attempt(FailedRead(ev.last)).err.message)

\* All three sources fail, the last one on a body that does not parse.
C7_Witness ==
  /\ ev.type = "fail"
  /\ ev.last = "badyaml"
  /\ Len(ev.tried) = 3
  /\ Contains(error, <<"bad indentation of a mapping entry">>)

\* The hard failure state.
HardFailure ==
  /\ error # EmptyMsg
  /\ error[1] = "Error loading YAML: "
  /\ metaBase = "Failed to load data."
  /\ data = NoDoc

\* C8: the displayed snapshot is null exactly when no refresh has succeeded;
\* a failed refresh gives the hard failure state exactly when none has, and
\* no other step enters that state.
C8_HardFailureOnlyWithoutData ==
  /\ [](data = NoDoc <=> hist = NoDoc)
  /\ [](metaBase = "Failed to load data." => hist = NoDoc)
  /\ [](ev.type = "fail" =>
          /\ (ev.prev = NoDoc) <=> HardFailure
          /\ ev.prev = NoDoc => error = <<"Error loading YAML: ">> \o UnderlyingCause(ev))
  /\ [][~HardFailure /\ HardFailure' => ev'.type = "fail" /\ hist = NoDoc]_vars

\* The first refresh fails.
C8_Witness ==
  /\ ev.type = "fail"
  /\ ev.prev = NoDoc
  /\ HardFailure

----------------------------------------------------------------------------
\* Properties of the validator.

\* An object: a mapping, a sequence or a Date, and not null.
IsObject(v) == v.type \in {"map", "array", "date"}

\* C9: validation succeeds if and only if the document is an object with a
\* non-null schema_version, an object counts and an object phases.
C9_OkIffRequiredShape ==
  vOut.done =>
    (vOut.ok <=> /\ IsObject(RootValue(vIn))
                 /\ vIn.schema_version # Undef
                 /\ vIn.schema_version # JSNull
                 /\ IsObject(vIn.counts)
                 /\ IsObject(vIn.phases))

\* A document whose schema_version is 0 passes.
C9_Witness ==
  /\ vOut.done
  /\ vOut.ok
  /\ vIn.schema_version = Num("0")

\* The required fields that document d lacks or has with the wrong type.
MissingFields(d) ==
  (IF d.schema_version \in {Undef, JSNull} THEN {"schema_version"} ELSE {})
  \cup (IF IsObject(d.counts) THEN {} ELSE {"counts"})
  \cup (IF IsObject(d.phases) THEN {} ELSE {"phases"})

\* The entry of the error list that names field f.
EntryFor(f) ==
  CASE f = "schema_version" -> "Missing schema_version."
    [] f = "counts" -> "Missing counts object."
    [] f = "phases" -> "Missing phases object."

\* The entries of an error list.
Entries(errors) == {errors[k] : k \in 1..Len(errors)}

\* C10 as stated: for every document that lacks a required field,
\* validation fails and both the error list and the refresh's message have
\* an entry for every such field.
C10_EveryDocumentListsAllFields ==
  vOut.done /\ MissingFields(vIn) # {} =>
    /\ ~vOut.ok
    /\ \A f \in MissingFields(vIn) :
         /\ EntryFor(f) \in Entries(vOut.errors)
         /\ Contains(vOut.thrown, <<EntryFor(f)>>)

\* C10, amended: for every document that is an object and lacks a required
\* field, validation fails, the error list has exactly one entry for every
\* such field, and the refresh's message is "Invalid YAML: " followed by all
\* of them; a document that is not an object fails with the single entry
\* "YAML root must be an object.", and the refresh rejects a falsy one as
\* "No data found.".
C10_ObjectDocumentListsAllFields ==
  vOut.done =>
    /\ IsObject(RootValue(vIn)) /\ MissingFields(vIn) # {} =>
         /\ ~vOut.ok
         /\ Entries(vOut.errors) = {EntryFor(f) : f \in MissingFields(vIn)}
         /\ Len(vOut.errors) = Cardinality(MissingFields(vIn))
         /\ vOut.thrown[1] = "Invalid YAML: "
         /\ \A f \in MissingFields(vIn) : Contains(vOut.thrown, <<EntryFor(f)>>)
    /\ ~IsObject(RootValue(vIn)) =>
         /\ ~vOut.ok
         /\ vOut.errors = <<"YAML root must be an object.">>
         /\ vOut.thrown =
              IF Truthy(RootValue(vIn))
              THEN <<"Invalid YAML: ", "YAML root must be an object.">>
              ELSE <<"No data found.">>

\* A mapping that lacks all three fields: three entries.
C10_Witness ==
  /\ vOut.done
  /\ vIn.root = "map"
  /\ Cardinality(MissingFields(vIn)) = 3
  /\ Len(vOut.errors) = 3

----------------------------------------------------------------------------
\* The search box, the filter buttons and the phase chips, next to the
\* refresh cycle.

\* Interval ticks of a behaviour.
MaxUiTicks == 1

\* What the user types, which filter buttons and which phase chips exist.
SearchInputs == {<<>>, <<"a", " ">>}
IsaButtons == {<<"ISA">>, <<"NON-ISA">>}
TrackButtons == {<<"Regular">>, <<"Fast-Track">>}
ChipPhases == {"Development"}

\* What the sources answer.
UiOutcomes ==
  {o \in Outcomes :
     \/ o.kind = "reject"
     \/ o.kind = "yaml" /\ Thrown(o.doc) = EmptyMsg /\ o.doc.generated_at.type = "string"}

\* The state that the handlers and the refresh leave alone.
UiFrame ==
  UNCHANGED <<env, mounted, data, error, metaBase, lastRefreshedAt,
              lastSuccessAt, lastGeneratedAt, toastMsg, lastDataRef, lastGenRef,
              lastGeneratedRef, toastTimerRef, toastTimers, inflight, ticks,
              hist, sinceEmit, validateVars, filterVars, statusVars,
              scheduleVars>>

\* The memos are those of the current state: React has rendered.
Rendered ==
  /\ filteredMemo = filteredData(data, searchQuery, isaFilter, trackFilter)
  /\ matchMemo = matchCount(data, searchQuery)

\* The debounce effect without its cleanup: a timer that is pending stays.
SetDebounce_NoCancel(timer, left) ==
  IF timer = "armed" THEN left ELSE DebounceUnits

\* The time left on the timer after the debounce effect has run again: the
\* cleanup clears the old timer, setTimeout arms a new one with the full
\* delay (lines 106-107).
SetDebounce(timer, left) == DebounceUnits

\* The debounce effect (lines 105-108) after the first render.
DebounceMount ==
  /\ debounceTimer = "unset"
  /\ debounceTimer' = "armed"
  /\ debounceLeft' = SetDebounce(debounceTimer, debounceLeft)
  /\ sinceInput' = 0
  /\ ev' = Quiet("ui")
  /\ UiFrame
  /\ UNCHANGED <<searchInput, searchQuery, expandPhases, expandedPhase,
                 isaFilter, trackFilter, filteredMemo, matchMemo>>

\* onChange of the search input (line 277); the debounce effect clears its
\* timer and arms a new one.
ChangeInput(v) ==
  /\ debounceTimer # "unset"
  /\ v # searchInput
  /\ searchInput' = v
  /\ debounceTimer' = "armed"
  /\ debounceLeft' = SetDebounce(debounceTimer, debounceLeft)
  /\ sinceInput' = 0
  /\ ev' = Quiet("input")
  /\ UiFrame
  /\ UNCHANGED <<searchQuery, expandPhases, expandedPhase, isaFilter,
                 trackFilter, filteredMemo, matchMemo>>

\* DebounceQuantum milliseconds pass while the debounce timer is pending
\* and not due.
DebounceAdvance ==
  /\ debounceTimer = "armed"
  /\ debounceLeft > 0
  /\ debounceLeft' = debounceLeft - 1
  /\ sinceInput' = sinceInput + 1
  /\ ev' = Quiet("elapse")
  /\ UiFrame
  /\ UNCHANGED <<searchInput, searchQuery, expandPhases, expandedPhase,
                 isaFilter, trackFilter, debounceTimer, filteredMemo, matchMemo>>

\* The callback of the debounce timer (line 106), when the timer is due.
DebounceFire ==
  /\ debounceTimer = "armed"
  /\ debounceLeft = 0
  /\ debounceTimer' = "fired"
  /\ searchQuery' = trim(searchInput)
  /\ ev' = Event("debounce", NoDoc, EmptyMsg, <<>>, "", FALSE, NoDoc, sinceInput)
  /\ UiFrame
  /\ UNCHANGED <<searchInput, expandPhases, expandedPhase, isaFilter,
                 trackFilter, debounceLeft, sinceInput, filteredMemo, matchMemo>>

\* What handleClear and the Escape handler do: setSearchInput(""),
\* setSearchQuery(""); the debounce effect runs again if the input changed.
ClearSearch ==
  /\ debounceTimer # "unset"
  /\ searchInput' = <<>>
  /\ searchQuery' = <<>>
  /\ debounceTimer' = IF searchInput # <<>> THEN "armed" ELSE debounceTimer
  /\ debounceLeft' = IF searchInput # <<>>
                     THEN SetDebounce(debounceTimer, debounceLeft)
                     ELSE debounceLeft
  /\ sinceInput' = IF searchInput # <<>> THEN 0 ELSE sinceInput
  /\ UiFrame
  /\ UNCHANGED <<expandPhases, expandedPhase, isaFilter, trackFilter,
                 filteredMemo, matchMemo>>

\* handleClear (lines 180-183)
handleClear == ClearSearch /\ ev' = Quiet("clear")

\* The keydown handler (lines 120-129), for the Escape key.
EscapeKey == ClearSearch /\ ev' = Quiet("escape")

\* toggleIsaFilter(val)
toggleIsaFilter(val) ==
  /\ isaFilter' = IF isaFilter = val THEN NoFilter ELSE val
  /\ ev' = Quiet("ui")
  /\ UiFrame
  /\ UNCHANGED <<searchInput, searchQuery, expandPhases, expandedPhase,
                 trackFilter, debounceTimer, debounceLeft, sinceInput,
                 filteredMemo, matchMemo>>

\* toggleTrackFilter(val)
toggleTrackFilter(val) ==
  /\ trackFilter' = IF trackFilter = val THEN NoFilter ELSE val
  /\ ev' = Quiet("ui")
  /\ UiFrame
  /\ UNCHANGED <<searchInput, searchQuery, expandPhases, expandedPhase,
                 isaFilter, debounceTimer, debounceLeft, sinceInput,
                 filteredMemo, matchMemo>>

\* onClick of a phase chip (lines 356-360).
PhaseChip(phase) ==
  /\ expandPhases' = FALSE
  /\ expandedPhase' = IF expandedPhase = phase THEN "null" ELSE phase
  /\ ev' = Quiet("ui")
  /\ UiFrame
  /\ UNCHANGED <<searchInput, searchQuery, isaFilter, trackFilter,
                 debounceTimer, debounceLeft, sinceInput, filteredMemo,
                 matchMemo>>

\* onClick of "Expand all" (lines 369-373).
ExpandAll ==
  /\ expandPhases' = ~expandPhases
  /\ expandedPhase' = "null"
  /\ ev' = Quiet("ui")
  /\ UiFrame
  /\ UNCHANGED <<searchInput, searchQuery, isaFilter, trackFilter,
                 debounceTimer, debounceLeft, sinceInput, filteredMemo,
                 matchMemo>>

\* Object.assign(data, {phases: nextPhases}) would write the filtered
\* phases into the snapshot.
AssignSource_InPlace(d, result) == result

\* The snapshot after Object.assign({}, data, {phases: nextPhases}): the
\* target is a fresh object, the sources are only read.
AssignSource(d, result) == d

\* A render whose memo inputs changed computes filteredData and matchCount.
Render ==
  /\ ~Rendered
  /\ filteredMemo' = filteredData(data, searchQuery, isaFilter, trackFilter)
  /\ matchMemo' = matchCount(data, searchQuery)
  /\ data' = AssignSource(data, filteredMemo')
  /\ lastDataRef' = IF lastDataRef = data THEN data' ELSE lastDataRef
  /\ ev' = Quiet("render")
  /\ UNCHANGED <<env, mounted, error, metaBase, lastRefreshedAt, lastSuccessAt,
                 lastGeneratedAt, toastMsg, lastGenRef, lastGeneratedRef,
                 toastTimerRef, toastTimers, inflight, ticks, hist, sinceEmit,
                 validateVars, filterVars, statusVars, scheduleVars>>
  /\ UNCHANGED <<searchInput, searchQuery, expandPhases, expandedPhase,
                 isaFilter, trackFilter, debounceTimer, debounceLeft,
                 sinceInput>>

\* An interval tick, at most MaxUiTicks of them.
UiTick == ticks < MaxUiTicks /\ TickCounted

UiSpecInit == Init /\ env = ""

\* React renders after every event before it handles the next one.
UiNext ==
  \/ Render
  \/ Rendered /\ Mount
  \/ Rendered /\ UiTick
  \/ Rendered /\ \E i \in 1..Len(inflight) : \E o \in UiOutcomes : FetchNext(i, o)
  \/ Rendered /\ \E i \in 1..Len(inflight) : \E o \in UiOutcomes : RefreshSucceed(i, o)
  \/ Rendered /\ \E i \in 1..Len(inflight) : \E o \in UiOutcomes : RefreshFail(i, o)
  \/ Rendered /\ DebounceMount
  \/ Rendered /\ \E v \in SearchInputs : ChangeInput(v)
  \/ Rendered /\ DebounceAdvance
  \/ Rendered /\ DebounceFire
  \/ Rendered /\ handleClear
  \/ Rendered /\ EscapeKey
  \/ Rendered /\ \E val \in IsaButtons : toggleIsaFilter(val)
  \/ Rendered /\ \E val \in TrackButtons : toggleTrackFilter(val)
  \/ Rendered /\ \E phase \in ChipPhases : PhaseChip(phase)
  \/ Rendered /\ ExpandAll

UiSpec == UiSpecInit /\ [][UiNext]_vars

----------------------------------------------------------------------------
\* The search box alone, with its clock.

\* What the user types.
TypedInputs == {<<>>, <<"a">>, <<"a", " ">>, <<" ", "b">>, <<"b">>, <<"a", "b">>}

DebounceNext ==
  \/ DebounceMount
  \/ \E v \in TypedInputs : ChangeInput(v)
  \/ DebounceAdvance
  \/ DebounceFire
  \/ handleClear
  \/ EscapeKey

\* The effect runs after the first render, time does not stop, and the
\* event loop runs a due timer callback.
DebounceSpec ==
  /\ Init
  /\ [][DebounceNext]_vars
  /\ WF_vars(DebounceMount)
  /\ WF_vars(DebounceAdvance)
  /\ WF_vars(DebounceFire)

----------------------------------------------------------------------------
\* The status configuration and the card of an issue.

\* Longest list of subtasks of a card's issue.
MaxSubtasks == 2

InPhase == <<"[", "Development", "]", " ", "a">>

\* Subtasks that differ in phase label, status, type and approval flag.
CardSubtasks ==
  { Subtask(<<"a">>, InPhase, <<"Done">>, <<>>, TUndef),
    Subtask(<<"a">>, <<" ", "[", " ", "development", " ", "]">>, <<"Approved">>,
            <<"Task">>, TBool("false")),
    Subtask(<<"a">>, InPhase, <<"To Do">>, <<>>, TUndef),
    Subtask(<<"a">>, InPhase, <<"Blocked">>, <<>>, TUndef),
    Subtask(<<"a">>, InPhase, <<>>, <<>>, TUndef),
    Subtask(<<"a">>, InPhase, <<"Waived">>, <<"approval">>, TStr(<<"true">>)),
    Subtask(<<"a">>, <<"[", "Plan", "]">>, <<"Done">>, <<>>, TUndef),
    Subtask(<<"a">>, <<"[", "Ecosystem", "]">>, <<"Done">>, <<"Approval">>, TUndef),
    Subtask(<<"a">>, <<"a">>, <<"Blocked">>, <<>>, TBool("true")),
    Subtask(<<"b">>, InPhase, <<"Approved">>, <<"Approval">>, TUndef),
    Subtask(<<"b">>, InPhase, <<"DONE">>, <<>>, TBool("true")),
    Subtask(<<"b">>, InPhase, <<"To Do">>, <<"ARC Review">>, TUndef),
    Subtask(<<"b">>, InPhase, <<"Waived">>, <<"BoD Approval">>, TUndef) }

\* The lists of at most n subtasks.
RECURSIVE SubtaskLists(_)
SubtaskLists(n) ==
  IF n = 0 THEN {<<>>}
  ELSE SubtaskLists(n - 1)
       \cup {<<st>> \o l : st \in CardSubtasks,
                           l \in {m \in SubtaskLists(n - 1) : Len(m) = n - 1}}

CardIssues ==
  {Issue(<<"a">>, <<>>, phase, NoField, NoField, subs, <<>>) :
     phase \in {<<"Development">>, <<"Planning">>, <<>>},
     subs \in SubtaskLists(MaxSubtasks)}

\* What status_config.json holds.
ConfigFiles ==
  { [doneStatuses |-> AbsentV, notStartedStatuses |-> AbsentV],
    [doneStatuses |-> ArrayV(<<<<"Done">>, <<"Waived">>>>),
     notStartedStatuses |-> ArrayV(<<<<"To Do">>, <<"approved">>>>)],
    [doneStatuses |-> OtherV, notStartedStatuses |-> ArrayV(<<<<"Blocked">>>>)] }

StatusSpecInit ==
  /\ InitApp
  /\ ValidateIdle
  /\ FilterIdle
  /\ UiInit
  /\ ScheduleInit
  /\ statusConfig = DEFAULT_STATUS_CONFIG
  /\ configFetched = FALSE
  /\ cardIssue \in CardIssues
  /\ card = NoCard

\* The fetch of status_config.json answers with a configuration object
\* (App lines 131-138).
LoadStatusConfig(cfg) ==
  /\ ~configFetched
  /\ configFetched' = TRUE
  /\ statusConfig' = MergeConfig(cfg)
  /\ UNCHANGED <<appVars, validateVars, filterVars, uiVars, scheduleVars,
                 cardIssue, card>>

\* The fetch fails, or answers without success or with null.
LoadStatusConfigFails ==
  /\ ~configFetched
  /\ configFetched' = TRUE
  /\ UNCHANGED <<appVars, validateVars, filterVars, uiVars, scheduleVars,
                 statusConfig,
                 cardIssue, card>>

\* The card renders with the current status configuration.
RenderCard ==
  /\ card # IssueCard(cardIssue, statusConfig)
  /\ card' = IssueCard(cardIssue, statusConfig)
  /\ UNCHANGED <<appVars, validateVars, filterVars, uiVars, scheduleVars,
                 statusConfig,
                 configFetched, cardIssue>>

StatusNext ==
  \/ \E cfg \in ConfigFiles : LoadStatusConfig(cfg)
  \/ LoadStatusConfigFails
  \/ RenderCard

StatusSpec == StatusSpecInit /\ [][StatusNext]_vars

----------------------------------------------------------------------------
\* The refresh cycle with the clock of its interval and the start order of
\* the refreshes. The toast and its timer have no steps here.

\* An interval that grows with the failures.
IntervalAfter_Backoff(streak) == IntervalUnits * (1 + streak)

\* The time from one tick to the next: setInterval(loadAndRender,
\* DEFAULT_INTERVAL_MS) is armed once and repeats, whatever number of
\* refreshes have failed.
IntervalAfter(streak) == IntervalUnits

\* Mount arms the interval and starts the first refresh.
ScheduleMount ==
  /\ MountApp
  /\ intervalLeft' = IntervalAfter(failStreak)
  /\ sinceStart' = 0
  /\ starts' = 1
  /\ startedAt' = <<1>>
  /\ UNCHANGED <<failStreak, recovered, winSeq, winDoc>>
  /\ UNCHANGED <<validateVars, filterVars, uiVars, statusVars>>

\* IntervalQuantum milliseconds pass while the interval is not due.
IntervalAdvance ==
  /\ mounted
  /\ intervalLeft > 0
  /\ intervalLeft' = intervalLeft - 1
  /\ sinceStart' = sinceStart + 1
  /\ ev' = Quiet("elapse")
  /\ UNCHANGED <<env, mounted, data, error, metaBase, lastRefreshedAt,
                 lastSuccessAt, lastGeneratedAt, toastMsg, lastDataRef,
                 lastGenRef, lastGeneratedRef, toastTimerRef, toastTimers,
                 inflight, ticks, hist, sinceEmit>>
  /\ UNCHANGED <<starts, startedAt, failStreak, recovered, winSeq, winDoc>>
  /\ UNCHANGED <<validateVars, filterVars, uiVars, statusVars>>

\* The interval is due: it fires and runs again.
ScheduleTick ==
  /\ intervalLeft = 0
  /\ starts < MaxStarts
  /\ TickApp
  /\ intervalLeft' = IntervalAfter(failStreak)
  /\ sinceStart' = 0
  /\ starts' = starts + 1
  /\ startedAt' = Append(startedAt, starts + 1)
  /\ UNCHANGED <<failStreak, recovered, winSeq, winDoc>>
  /\ UNCHANGED <<validateVars, filterVars, uiVars, statusVars>>

\* FetchNext: no refresh starts or completes.
ScheduleFetchNext(i, o) == FetchNext(i, o)

\* RefreshSucceed, with the start number of the refresh that completes.
ScheduleSucceed(i, o) ==
  /\ RefreshSucceedApp(i, o)
  /\ startedAt' = Remove(startedAt, i)
  /\ recovered' = failStreak
  /\ failStreak' = 0
  /\ winSeq' = IF startedAt[i] > winSeq THEN startedAt[i] ELSE winSeq
  /\ winDoc' = IF startedAt[i] > winSeq
                THEN fetchYaml(inflight[i], o).value ELSE winDoc
  /\ UNCHANGED <<intervalLeft, sinceStart, starts>>
  /\ UNCHANGED <<validateVars, filterVars, uiVars, statusVars>>

\* RefreshFail, with the failures counted.
ScheduleFail(i, o) ==
  /\ RefreshFailApp(i, o)
  /\ startedAt' = Remove(startedAt, i)
  /\ failStreak' = IF failStreak < MaxStarts THEN failStreak + 1 ELSE failStreak
  /\ UNCHANGED <<intervalLeft, sinceStart, starts, recovered, winSeq, winDoc>>
  /\ UNCHANGED <<validateVars, filterVars, uiVars, statusVars>>

ScheduleSpecInit == Init /\ env = ""

ScheduleNext ==
  \/ ScheduleMount
  \/ IntervalAdvance
  \/ ScheduleTick
  \/ \E i \in 1..Len(inflight) : \E o \in UiOutcomes : ScheduleFetchNext(i, o)
  \/ \E i \in 1..Len(inflight) : \E o \in UiOutcomes : ScheduleSucceed(i, o)
  \/ \E i \in 1..Len(inflight) : \E o \in UiOutcomes : ScheduleFail(i, o)

ScheduleSpec == ScheduleSpecInit /\ [][ScheduleNext]_vars

----------------------------------------------------------------------------
\* Properties of the filtered view (FilterSpec).

\* The phases of the fixed enumeration.
PhaseNames == {PHASE_ORDER[k] : k \in 1..Len(PHASE_ORDER)}

\* filteredData has been computed from a loaded snapshot.
Filtered == fStage \in {"filtered", "refiltered"} /\ fData # NoDoc

\* The snapshot's and the filtered view's issues of a phase.
SnapshotList(phase) == PhaseList(PhasesOf(fData), phase)
FilteredList(phase) == fOut.phases.val[phase]

\* The query as it is compared: trimmed, lower-cased.
NormalQuery == toLowerCase(trim(fQuery))

\* The issue or one of its subtasks textually matches the query.
TextMatch(issue) ==
  \/ matchesQuery(NormalQuery, issue, NoSub)
  \/ \E k \in 1..Len(issue.subtasks) :
       matchesQuery(NormalQuery, issue, <<issue.subtasks[k]>>)

\* Conditions (a), (b) and (c) of the filter.
Selected(issue) ==
  /\ NormalQuery = <<>> \/ TextMatch(issue)
  /\ fIsa # NoFilter => issueIsaValue(issue) = fIsa
  /\ fTrack # NoFilter => issueTrackValue(issue) = fTrack

\* The positions of a list whose issue is selected, and the list they make
\* in their original order.
SelectedAt(list) == {k \in 1..Len(list) : Selected(list[k])}
SelectedOf(list) ==
  [j \in 1..Cardinality(SelectedAt(list)) |->
     list[CHOOSE k \in SelectedAt(list) :
            Cardinality({m \in SelectedAt(list) : m < k}) = j - 1]]

\* C11: for every phase of the fixed enumeration the filtered list is
\* exactly the subsequence, in original order, of the snapshot's issues of
\* that phase that match the query (or the query is empty), whose ISA
\* classification equals the ISA filter when one is set and whose track
\* classification equals the track filter when one is set.
C11_FilteredIsSelectedSubsequence ==
  Filtered =>
    /\ DOMAIN fOut.phases.val = PhaseNames
    /\ \A phase \in PhaseNames :
         FilteredList(phase) = SelectedOf(SnapshotList(phase))

\* A query and both filters are set; of two issues the first is kept and
\* the second dropped.
C11_Witness ==
  /\ Filtered
  /\ NormalQuery # <<>> /\ fIsa # NoFilter /\ fTrack # NoFilter
  /\ Len(SnapshotList("Development")) = 2
  /\ FilteredList("Development") = <<SnapshotList("Development")[1]>>
  /\ SnapshotList("Development")[1] # SnapshotList("Development")[2]

\* C12 as stated: with an empty query and no filter the phases of the
\* filtered structure equal the phases of the snapshot.
C12_PhasesEqualSnapshot ==
  (Filtered /\ NormalQuery = <<>> /\ fIsa = NoFilter /\ fTrack = NoFilter) =>
    fOut.phases = fData.phases

\* C12: with an empty query and no filter, every phase of the fixed
\* enumeration lists in the filtered structure the issues the snapshot lists
\* for it, in the same order, a phase the snapshot lacks being empty.
C12_EnumeratedPhasesEqualSnapshot ==
  (Filtered /\ NormalQuery = <<>> /\ fIsa = NoFilter /\ fTrack = NoFilter) =>
    /\ DOMAIN fOut.phases.val = PhaseNames
    /\ \A phase \in PhaseNames : FilteredList(phase) = SnapshotList(phase)

\* Nothing is asked of a snapshot with two issues in a phase; the snapshot
\* lacks some phase of the enumeration.
C12_Witness ==
  /\ Filtered
  /\ NormalQuery = <<>> /\ fIsa = NoFilter /\ fTrack = NoFilter
  /\ Len(FilteredList("Development")) = 2
  /\ "Inception" \notin DOMAIN PhasesOf(fData)

\* C13: filtering is idempotent: filtering the filtered structure again with
\* the same query and filters gives the same structure.
C13_FilterIdempotent ==
  fStage = "refiltered" => fAgain = fOut

\* A filter that dropped an issue and kept another has been applied twice.
C13_Witness ==
  /\ fStage = "refiltered"
  /\ fData # NoDoc
  /\ Len(SnapshotList("Development")) = 2
  /\ Len(FilteredList("Development")) = 1
  /\ fAgain = fOut

\* The issues of the filtered lists.
FilteredIssues ==
  UNION {{FilteredList(phase)[k] : k \in 1..Len(FilteredList(phase))}
         : phase \in PhaseNames}

\* The issues of the snapshot's lists of the enumerated phases.
SnapshotIssues ==
  UNION {{SnapshotList(phase)[k] : k \in 1..Len(SnapshotList(phase))}
         : phase \in PhaseNames}

\* isa_or_non_isa.value of an issue as text ("" when it is missing).
IsaText(issue) ==
  IF issue.isa_or_non_isa.present /\ issue.isa_or_non_isa.value.type = "string"
  THEN issue.isa_or_non_isa.value.text
  ELSE <<>>

\* C14 as stated: under an ISA filter every filtered issue's upper-cased
\* isa_or_non_isa.value equals the filter.
C14_UppercasedValueEqualsFilter ==
  (Filtered /\ fIsa # NoFilter) =>
    \A issue \in FilteredIssues : toUpperCase(IsaText(issue)) = fIsa

\* C14: under an ISA filter every filtered issue's isa_or_non_isa.value,
\* trimmed and upper-cased, equals the filter; an issue whose value is
\* missing or empty is in no filtered list.
C14_TrimmedUppercasedValueEqualsFilter ==
  (Filtered /\ fIsa # NoFilter) =>
    \A issue \in FilteredIssues :
      /\ toUpperCase(trim(IsaText(issue))) = fIsa
      /\ IsaText(issue) # <<>>

\* Under an ISA filter an issue is kept, one of the other class is dropped;
\* or one without a value is dropped.
C14_Witness ==
  /\ Filtered
  /\ fIsa # NoFilter
  /\ FilteredIssues # {}
  /\ \E issue \in SnapshotIssues \ FilteredIssues : IsaText(issue) = <<>>
  /\ \E issue \in SnapshotIssues \ FilteredIssues :
       /\ Selected([issue EXCEPT !.isa_or_non_isa = Field(TStr(fIsa))])
       /\ IsaText(issue) # <<>>

\* is_fast_track.value trimmed and lower-cased, "" when it is no string.
TrackText(issue) ==
  IF issue.is_fast_track.present /\ issue.is_fast_track.value.type = "string"
  THEN toLowerCase(trim(issue.is_fast_track.value.text))
  ELSE <<>>

\* C15: the track classification is "Fast-Track" iff is_fast_track.value
\* trimmed and lower-cased is "yes", "Regular" iff it is "no", empty
\* otherwise; under a track filter no filtered issue has an empty
\* classification; without a track filter every issue that the query and
\* the ISA filter select is in the filtered list.
C15_TrackClassification ==
  Filtered =>
    /\ \A issue \in SnapshotIssues :
         /\ issueTrackValue(issue) = <<"Fast-Track">> <=> TrackText(issue) = <<"yes">>
         /\ issueTrackValue(issue) = <<"Regular">> <=> TrackText(issue) = <<"no">>
         /\ issueTrackValue(issue) = <<>> <=> TrackText(issue) \notin {<<"yes">>, <<"no">>}
    /\ fTrack # NoFilter =>
         \A issue \in FilteredIssues : issueTrackValue(issue) # <<>>
    /\ fTrack = NoFilter =>
         \A issue \in SnapshotIssues :
           ((NormalQuery = <<>> \/ TextMatch(issue))
            /\ (fIsa # NoFilter => issueIsaValue(issue) = fIsa))
             => issue \in FilteredIssues

\* Under a track filter an issue of that track, written with other case or
\* padding, is kept and an issue without classification is dropped.
C15_Witness ==
  /\ Filtered
  /\ fTrack # NoFilter
  /\ \E issue \in FilteredIssues :
       issue.is_fast_track.value.text \notin {<<"yes">>, <<"no">>}
  /\ \E issue \in SnapshotIssues \ FilteredIssues : issueTrackValue(issue) = <<>>

----------------------------------------------------------------------------
\* Properties of the search and filter state (UiSpec).

\* C16: computing the filtered view or the match count, and every change of
\* the raw input, the committed query, the ISA filter, the track filter or
\* the phase expansion, leave the current snapshot and the last good
\* snapshot as they are; the snapshot changes only in the step that
\* completes a refresh.
C16_FilteringLeavesSnapshot ==
  [][/\ uiVars' # uiVars => data' = data /\ lastDataRef' = lastDataRef
     /\ (data' # data \/ lastDataRef' # lastDataRef) =>
          ev'.type \in {"success", "fail"}]_vars

\* A query and a filter are set on a loaded snapshot, a phase is expanded,
\* and the rendered view has dropped an issue of the snapshot.
C16_Witness ==
  /\ data # NoDoc
  /\ data = lastDataRef
  /\ searchQuery # <<>>
  /\ isaFilter # NoFilter
  /\ expandedPhase # "null"
  /\ Rendered
  /\ matchMemo > 0
  /\ filteredMemo.phases # data.phases
  /\ Len(filteredMemo.phases.val["Development"]) < Len(data.phases.val["Development"])

----------------------------------------------------------------------------
\* Properties of the status classifier and the card (StatusSpec).

\* The configured sets: the lower-cased entries of the loaded lists, those
\* of the default list where the loaded value is no list.
Configured(f) ==
  LET list == IF statusConfig[f].kind = "array" THEN statusConfig[f].items
              ELSE DEFAULT_STATUS_CONFIG[f].items
  IN {toLowerCase(list[k]) : k \in 1..Len(list)}

\* The class that case-insensitive membership gives a status.
ClassOf(status) ==
  IF toLowerCase(status) \in Configured("doneStatuses") THEN "status-done"
  ELSE IF toLowerCase(status) \in Configured("notStartedStatuses")
       THEN "status-not-started"
  ELSE "status-in-progress"

\* The card shows the current configuration.
CardRendered == card.rendered /\ card = IssueCard(cardIssue, statusConfig)

\* The rows of the card: positions of the issue's subtasks.
Rows == 1..Len(cardIssue.subtasks)

\* C17 as stated: every status is classified done, not-started or
\* in-progress by case-insensitive membership in the configured sets.
C17_EveryStatusClassified ==
  CardRendered =>
    \A k \in Rows : card.chips[k] = ClassOf(cardIssue.subtasks[k].status)

\* C17: every status that is not empty is classified done, not-started or
\* in-progress by case-insensitive membership in the configured sets (done
\* first), an empty or missing status is classified neutral; under the
\* default configuration "Done" is done, "To Do" not-started and "Blocked"
\* in-progress.
C17_NonEmptyStatusClassified ==
  CardRendered =>
    /\ \A k \in Rows :
         LET status == cardIssue.subtasks[k].status
         IN /\ status # <<>> => card.chips[k] = ClassOf(status)
            /\ status = <<>> => card.chips[k] = "status-neutral"
    /\ statusConfig = DEFAULT_STATUS_CONFIG =>
         \A k \in Rows :
           LET status == cardIssue.subtasks[k].status
           IN /\ status = <<"Done">> => card.chips[k] = "status-done"
              /\ status = <<"To Do">> => card.chips[k] = "status-not-started"
              /\ status = <<"Blocked">> => card.chips[k] = "status-in-progress"

\* Under a loaded configuration that differs from the default, a status
\* written in another case than the configuration's is done and one in
\* neither set is in progress.
C17_Witness ==
  /\ CardRendered
  /\ configFetched
  /\ statusConfig # DEFAULT_STATUS_CONFIG
  /\ \E k \in Rows :
       /\ card.chips[k] = "status-done"
       /\ cardIssue.subtasks[k].status \notin Configured("doneStatuses")
  /\ \E k \in Rows : card.chips[k] = "status-in-progress"

\* The subtasks of the issue's current phase, approvals or not.
CurrentPhaseRows(approval) ==
  {k \in Rows :
     /\ phaseFromSummary(cardIssue.subtasks[k].summary) = TStr(cardIssue.phase)
     /\ isApproval(cardIssue.subtasks[k]) = approval}

\* C18: the displayed task counts (done, total, in progress) equal the
\* numbers of non-approval subtasks of the current phase that the status
\* classifier classifies, under the loaded configuration, as done, at all,
\* and as in progress.
C18_TaskCountsFollowClassifier ==
  CardRendered =>
    /\ card.taskCounts.total = Cardinality(CurrentPhaseRows(FALSE))
    /\ card.taskCounts.done =
         Cardinality({k \in CurrentPhaseRows(FALSE) : card.chips[k] = "status-done"})
    /\ card.taskCounts.inProgress =
         Cardinality({k \in CurrentPhaseRows(FALSE) :
                        card.chips[k] = "status-in-progress"})

\* The approval-specific done-set: "done" and the approval done statuses.
ApprovalDone(st) ==
  toLowerCase(st.status) \in
    {<<"done">>} \cup {approvalDoneStatuses[k] : k \in 1..Len(approvalDoneStatuses)}

\* The approval rows of the current phase that are not done.
PendingRows == {k \in CurrentPhaseRows(TRUE) : ~ApprovalDone(cardIssue.subtasks[k])}

\* C19: the next pending approval is the first approval subtask of the
\* current phase, in list order, whose status is not done under the
\* approval done-set; there is none iff every approval subtask of the
\* current phase is done, which is exactly when the approvals done count
\* equals the approvals total.
C19_NextApprovalIsFirstPending ==
  CardRendered =>
    /\ PendingRows # {} =>
         card.nextApproval =
           <<cardIssue.subtasks[CHOOSE k \in PendingRows : \A m \in PendingRows : k <= m]>>
    /\ card.nextApproval = NoItem <=> PendingRows = {}
    /\ card.nextApproval = NoItem <=>
         card.approvalCounts.done = card.approvalCounts.total
    /\ card.approvalCounts.total = Cardinality(CurrentPhaseRows(TRUE))

\* Two approvals of the current phase: the first is done, the second is the
\* next pending one.
C19_Witness ==
  /\ CardRendered
  /\ Cardinality(CurrentPhaseRows(TRUE)) = 2
  /\ card.approvalCounts.done = 1
  /\ card.nextApproval = <<cardIssue.subtasks[2]>>
  /\ cardIssue.subtasks[1] # cardIssue.subtasks[2]

----------------------------------------------------------------------------
\* The order of the sources as the README gives it (Spec).

\* VITE_YAML_URL if provided, the release URL, the local file.
DocumentedOrder ==
  SelectSeq(<<env, DEFAULT_SRC_REMOTE, DEFAULT_SRC_LOCAL>>, LAMBDA src : src # "")

\* The sources in ev.tried before position k.
TriedBefore(k) == {ev.tried[m] : m \in 1..(k - 1)}

\* C20: the sources are read in the order VITE_YAML_URL (if provided),
\* DEFAULT_SRC_REMOTE, local file; the local file is read only after the
\* read of the release URL has failed.
C20_RemoteBeforeLocal ==
  ev.type \in {"next", "success", "fail"} =>
    /\ ev.tried = SubSeq(DocumentedOrder, 1, Len(ev.tried))
    /\ \A k \in 1..Len(ev.tried) :
         ev.tried[k] = DEFAULT_SRC_LOCAL => DEFAULT_SRC_REMOTE \in TriedBefore(k)

----------------------------------------------------------------------------
\* Properties of the debounced query (DebounceSpec).

\* C21: the committed query changes only when the debounce timer fires,
\* DEBOUNCE_MS after the most recent change of the raw input, and then
\* becomes the trimmed raw input, or on Clear or Escape, which empty raw
\* input and query at once; a change of the raw input restarts the delay;
\* once the raw input stays the same, the committed query eventually is the
\* trimmed raw input and stays so.
C21_DebouncedCommit ==
  /\ [][searchQuery' # searchQuery =>
          ev'.type \in {"debounce", "clear", "escape"}]_vars
  /\ [][ev'.type = "debounce" /\ ev' # ev =>
          /\ searchQuery' = trim(searchInput)
          /\ searchInput' = searchInput
          /\ sinceInput = DebounceUnits]_vars
  /\ [](ev.type = "debounce" => ev.elapsed = DebounceUnits)
  /\ [](ev.type \in {"clear", "escape"} => searchInput = <<>> /\ searchQuery = <<>>)
  /\ [][searchInput' # searchInput =>
          debounceTimer' = "armed" /\ debounceLeft' = DebounceUnits]_vars
  /\ \A v \in TypedInputs :
       <>[](searchInput = v) => <>[](searchQuery = trim(v))

\* A raw value was replaced within the delay; the timer then fired and
\* committed the trimmed later value, the earlier one never.
C21_Witness ==
  /\ ev.type = "debounce"
  /\ searchInput = <<"a", " ">>
  /\ searchQuery = <<"a">>
  /\ searchQuery # searchInput

----------------------------------------------------------------------------
\* Properties of the refresh schedule (ScheduleSpec).

\* C22: a refresh starts once at mount and afterwards only when the
\* interval fires, DEFAULT_INTERVAL_MS after the previous tick or the
\* mount, whatever number of refreshes have failed; a failing refresh
\* starts none and leaves the interval as it is; a due tick is not held
\* back by failures; and a successful refresh replaces the snapshot.
C22_RefreshOnlyAtFixedTicks ==
  /\ [][Len(inflight') > Len(inflight) =>
          /\ Len(inflight') = Len(inflight) + 1
          /\ \/ ~mounted /\ ev'.type = "mount"
             \/ mounted /\ ev'.type = "tick" /\ sinceStart = IntervalUnits]_vars
  /\ [][mounted => mounted']_vars
  /\ [][starts' = starts \/ intervalLeft' = IntervalUnits]_vars
  /\ [][Len(inflight') < Len(inflight) =>
          /\ Len(inflight') = Len(inflight) - 1
          /\ ev'.type \in {"success", "fail"}
          /\ intervalLeft' = intervalLeft
          /\ starts' = starts]_vars
  /\ [](mounted /\ intervalLeft = 0 /\ starts < MaxStarts
        /\ Len(inflight) < MaxInFlight => ENABLED ScheduleTick)
  /\ [](ev.type = "success" => data = ev.doc /\ lastDataRef = ev.doc)

\* Two refreshes in a row have failed, the tick after them has started a
\* third, and that one has replaced the snapshot.
C22_Witness ==
  /\ ev.type = "success"
  /\ recovered = 2
  /\ starts = 3
  /\ inflight = <<>>
  /\ data = ev.doc
  /\ error = EmptyMsg

\* C23: once no refresh is in flight, the displayed snapshot, the last
\* good snapshot and the fingerprint are those of the successful refresh
\* that started last: a refresh that started earlier and completes later
\* has not overwritten them.
C23_LatestStartedWins ==
  inflight = <<>> /\ winSeq > 0 =>
    /\ data = winDoc
    /\ lastDataRef = winDoc
    /\ lastGenRef = genKey(winDoc)

----------------------------------------------------------------------------
\* Properties of the error message and of the sources of one refresh (Spec).

\* C24: an error that is displayed stays displayed until a refresh
\* completes successfully: no other step, the start of a refresh
\* included, clears it.
C24_ErrorStaysUntilSuccess ==
  [][error # EmptyMsg /\ error' = EmptyMsg => ev'.type = "success"]_vars

\* C25: a read that parses ends the loop over the sources, so the checks
\* of the refresh are applied to the first document that parses and to no
\* other; when that document is empty or has not the shape of a rollup the
\* refresh fails with the message of the check and is over, whatever
\* number of sources are left unread; a refresh that fails with sources
\* left unread has failed on such a document.
C25_FirstParsedDocumentDecides ==
  /\ [][ev'.last = "yaml" =>
          /\ ev'.type \in {"success", "fail"}
          /\ Len(inflight') = Len(inflight) - 1
          /\ \E k \in 1..Len(inflight) :
               /\ inflight' = Remove(inflight, k)
               /\ ev'.tried = Append(inflight[k].tried, Candidates[inflight[k].idx])]_vars
  /\ [](ev.type = "fail" /\ ev.last = "yaml" =>
          /\ ev.cause # EmptyMsg
          /\ ev.cause \in { <<"No data found.">>,
                            <<"Invalid YAML: ">> \o
                              Join(validateYamlShape(ev.doc).errors, " ") }
          /\ Contains(error, ev.cause))
  /\ [](ev.type = "success" => validateYamlShape(ev.doc).ok)
  /\ [](ev.type = "fail" /\ Len(ev.tried) < Len(Candidates) => ev.last = "yaml")

\* The first source serves a document that parses and has not the shape of
\* a rollup: the refresh has failed on it, the other sources unread.
C25_Witness ==
  /\ ev.type = "fail"
  /\ ev.last = "yaml"
  /\ Len(ev.tried) = 1
  /\ Len(Candidates) >= 2
  /\ Truthy(RootValue(ev.doc))
  /\ ~validateYamlShape(ev.doc).ok
  /\ inflight = <<>>
  /\ error # EmptyMsg

====
